---- MODULE Spec2Model ----
(***************************************************************************)
(* A model of the audio signal-routing and capture engine of the looping   *)
(* station: the sampler voices (SamplerService / SamplerVoice), the shared *)
(* capture-stream cache (AudioContextManager), the PCM recorder            *)
(* (PCMRecorder / TrackAudio recording), the LFO bindings, the loop        *)
(* transport math and the effect chain of a track (TrackAudio), the pad    *)
(* assignment of the sampler, the negotiated cast session                  *)
(* (ToneCastManager), the batched PCM packing, the consumers of the shared *)
(* capture streams (TrackAudio input, AudioRouter), the DeviceManager, the  *)
(* master volume and the two capture processors (RecorderProcessor,        *)
(* CastProcessor).                                                         *)
(*                                                                         *)
(* Each subsystem has its own specification over the shared variables; the *)
(* variables of the other subsystems stay at their constructed values.     *)
(***************************************************************************)
EXTENDS Integers, Sequences, FiniteSets, TLC

(***************************************************************************)
(* Bounds of the model.                                                    *)
(***************************************************************************)
NumVoices == 2          \* voices modelled (the service builds 20)
MaxCalls == 4           \* sampler calls (triggerPad / releasePad / setMode) per run
MaxSched == 2           \* player start/stop events scheduled and not yet executed
MaxEnded == 1           \* onstop notifications raised and not yet delivered
NumCallers == 2         \* consumers calling getSharedInputStream
MaxStreams == 3         \* captures getUserMedia can open in one run
MaxBatches == 3         \* sample batches the capture processor posts in one run
MaxStops == 2           \* stopRecording calls in one run
MaxStarts == 2          \* startRecording calls in one run
MaxLfoNodes == 7        \* routing nodes connectLFO can build in one run
MaxPos == 4             \* largest position (buffer duration, loop point, offset)
MaxTime == 3            \* clock ticks in one run
NumSlots == 3           \* effect slots modelled (the track has 7)
MaxEffects == 3         \* effect instances created in one run
MaxSessions == 2        \* startCasting calls that create a peer connection
MaxTimers == 2          \* follow-ups handleSignal sets in one run
MaxConnects == 5        \* overlapping connectInput calls begun in one run
SampleDen == 8          \* a sample is k / SampleDen
MaxDevices == 2         \* devices in one enumeration
MaxDb == 60             \* setMasterVolume arguments run over -MaxDb..MaxDb
MaxPipeCalls == 3       \* startAudioPiping calls in one run
MaxFed == 10            \* input samples fed to a capture processor in one run
MaxQuantum == 3         \* samples of one process() call
MaxLatency == 2         \* latencySamples handed to the RecorderProcessor
RecFrame == 3           \* RecorderProcessor.bufferSize as modelled (2048)
CastFrame == 4          \* CastProcessor.bufferSize as modelled (4096)

\* Numbers fixed by the program.
BufferSize == 2048      \* RecorderProcessor.bufferSize
DummyLength == 128      \* length of the silent buffer stop() returns for no data
SampleRate == 48000     \* Tone.context.sampleRate || 48000
MaxWait == 10000        \* startCasting: maxWait, in ms
PollInterval == 1000    \* startCasting: pollInterval, in ms
HeadroomNum == 19       \* the batch handler's 0.95 is HeadroomNum / HeadroomDen
HeadroomDen == 20
Scale24 == 8388607      \* the factor of Math.floor(l * 8388607)

VARIABLES
    \* ---- sampler ----
    ctxState,       \* Tone.context.state: "suspended" | "running"
    voices,         \* SamplerService.voices: pad id -> SamplerVoice state
    pendingTrig,    \* trigger() calls suspended at `await Tone.start()`, oldest first
    draining,       \* the resume has settled; suspended triggers are being continued
    lastOp,         \* history: last of trigger ("T") / release ("R") run on a voice;
                    \* "Rp": a release run while a trigger of the voice waited
    trigRun,        \* history: triggers run in a row on a voice since it was stopped
    calls,          \* history: number of sampler calls made
    \* ---- shared capture streams ----
    inputStreams,   \* AudioContextManager.inputStreams: cache key -> stream
    streams,        \* every MediaStream opened so far: id -> [key, active]
    getCalls,       \* getSharedInputStream calls: caller -> [pc, deviceId, result]
    \* ---- track recording ----
    recPc,          \* position of the startRecording call in flight ("idle": none)
    recDuration,    \* duration argument of that call, in ms (0: none)
    recorder,       \* TrackAudio.recorder: the current PCMRecorder
    registered,     \* registeredContexts.has(base context)
    inflight,       \* 'data' messages posted to the current recorder, not yet handled
    posted,         \* history: batches posted so far
    completeCalls,  \* history: invocations of recorder.onComplete
    lastStop,       \* history: what the last stopRecording returned
    stops,          \* history: number of stopRecording calls
    starts,         \* history: number of startRecording calls
    \* ---- LFO routing ----
    lfoConnections, \* TrackAudio.lfoConnections: parameter name -> entry
    lfoReverseState,\* TrackAudio.lfoReverseState: parameter name -> reversed
    lfoEdges,       \* connections among LFOs, routing nodes and parameters
    nextNode,       \* routing nodes built so far
    lfoReady,       \* the manager has built its LFOs
    prevSource,     \* history: the LFO the last connectLFO found bound (0: none)
    \* ---- loop transport ----
    duration,       \* player.buffer.duration (0: nothing loaded)
    loopStart,      \* TrackAudio.loopStart
    loopEnd,        \* TrackAudio.loopEnd
    playStartOffset,\* TrackAudio.playStartOffset (0 also for undefined)
    playStartTime,  \* TrackAudio.playStartTime
    playerState,    \* player.state: "started" | "stopped"
    reverse,        \* player.reverse
    rateNum,        \* player.playbackRate, in halves
    now,            \* Tone.now()
    \* ---- effect chain ----
    effects,        \* TrackAudio.effects: slot -> effect (0: null)
    auditioningEffect, \* TrackAudio.auditioningEffect (0: null)
    chainEdges,     \* connections among chainInput, effects and chainOutput
    nextEffect,     \* effect instances created so far
    \* ---- pad assignment ----
    padv,           \* one SamplerVoice as assignSample sees it
    \* ---- casting ----
    cast,           \* the ToneCastManager and its startCasting call
    pcm,            \* the batched PCM path of startAudioPiping
    \* ---- capture consumers and devices ----
    cap,            \* shared-stream cache, one TrackAudio input, the AudioRouter
    dev,            \* the DeviceManager
    \* ---- master graph and capture processors ----
    master,         \* AudioContextManager.masterVolume and the last call on it
    worklet         \* the RecorderProcessor and the CastProcessor instance

samplerVars == <<ctxState, voices, pendingTrig, draining, lastOp, trigRun, calls>>
streamVars == <<inputStreams, streams, getCalls>>
recVars == <<recPc, recDuration, recorder, registered, inflight, posted,
            completeCalls, lastStop, stops, starts>>

lfoVars == <<lfoConnections, lfoReverseState, lfoEdges, nextNode, lfoReady,
            prevSource>>
loopVars == <<duration, loopStart, loopEnd, playStartOffset, playStartTime,
             playerState, reverse, rateNum, now>>
fxVars == <<effects, auditioningEffect, chainEdges, nextEffect>>

\* The variables of the parts modelled with one record each.
auxVars == <<padv, cast, pcm, cap, dev>>

\* The master volume and the two capture processors.
nodeVars == <<master, worklet>>

\* The variables of the parts other than those of auxVars.
coreVars == <<samplerVars, streamVars, recVars, lfoVars, loopVars, fxVars,
             nodeVars>>

vars == <<coreVars, auxVars>>

\* What the actions of one part leave alone: the variables of the other parts.
nonSamplerVars == <<streamVars, recVars, lfoVars, loopVars, fxVars, auxVars,
                      nodeVars>>
nonStreamVars == <<samplerVars, recVars, lfoVars, loopVars, fxVars, auxVars,
                     nodeVars>>
nonRecVars == <<samplerVars, streamVars, lfoVars, loopVars, fxVars, auxVars,
                  nodeVars>>
nonLfoVars == <<samplerVars, streamVars, recVars, loopVars, fxVars, auxVars,
                  nodeVars>>
nonLoopVars == <<samplerVars, streamVars, recVars, lfoVars, fxVars, auxVars,
                   nodeVars>>
nonFxVars == <<samplerVars, streamVars, recVars, lfoVars, loopVars, auxVars,
                 nodeVars>>
nonNodeVars == <<samplerVars, streamVars, recVars, lfoVars, loopVars, fxVars,
                 auxVars>>

(***************************************************************************)
(* SAMPLER: SamplerService.js, SamplerVoice.js                             *)
(***************************************************************************)
Voices == 1..NumVoices
Modes == {"oneshot", "gate", "toggle"}
NoGroup == 0                    \* chokeGroup === null
Groups == {NoGroup, 1}

\* new SamplerVoice(id, acm): the player is not loaded, mode 'oneshot',
\* no choke group, _isPlaying false.  The player is described by whether it
\* is sounding now, by the start/stop events scheduled for a later time
\* (`sched`, in time order) and by the number of sources that ended and whose
\* onstop notification is still to be delivered (`ended`).
NewVoice(g) ==
    [loaded |-> FALSE, mode |-> "oneshot", chokeGroup |-> g,
     isPlaying |-> FALSE, loop |-> FALSE, transwaveEnabled |-> FALSE,
     sounding |-> FALSE, sched |-> <<>>, ended |-> 0]

RECURSIVE CountStarts(_)
CountStarts(s) ==
    IF s = <<>> THEN 0
    ELSE (IF Head(s) = "start" THEN 1 ELSE 0) + CountStarts(Tail(s))

\* Sources of the player that have been created and have not ended yet.
LiveSources(r) == (IF r.sounding THEN 1 ELSE 0) + CountStarts(r.sched)

\* player.stop() with no time: stops now, drops every later event; every live
\* source ends and raises onstop.
PlayerStopNow(r) ==
    [r EXCEPT !.sounding = FALSE, !.sched = <<>>,
              !.ended = r.ended + LiveSources(r)]

\* player.stop(safeTime), safeTime = Tone.now() + 0.05: nothing to do when the
\* player is neither started nor about to start.
PlayerStopAt(r) ==
    IF LiveSources(r) = 0 THEN r
    ELSE [r EXCEPT !.sched = Append(r.sched, "stop")]

\* player.start(safeTime, 0)
PlayerStartAt(r) == [r EXCEPT !.sched = Append(r.sched, "start")]

\* SamplerVoice.play(time)
Play(r) == [PlayerStartAt(r) EXCEPT !.isPlaying = TRUE]

\* SamplerVoice.stop(time) with a time: the flag is left to onstop.
StopAt(r) == PlayerStopAt(r)

\* SamplerVoice.stop() without a time (choke, setMode).
StopNow(r) == PlayerStopNow(r)

\* Mutant of TriggerBody: the toggle branch does not look at _isPlaying.
TriggerBody_NoLatch(r) ==
    LET r1 == [r EXCEPT !.loop = (r.mode = "toggle" \/ r.transwaveEnabled)]
        r2 == IF r1.isPlaying /\ r.mode # "toggle" THEN PlayerStopAt(r1) ELSE r1
    IN  Play(r2)

\* The part of SamplerVoice.trigger after the context check.
TriggerBody(r) ==
    IF r.mode = "toggle" THEN
        IF r.isPlaying
        THEN [StopAt(r) EXCEPT !.loop = FALSE]
        ELSE Play([r EXCEPT !.loop = TRUE])
    ELSE IF r.mode = "gate" THEN
        LET r1 == [r EXCEPT !.loop = FALSE]
            r2 == IF r1.isPlaying THEN PlayerStopAt(r1) ELSE r1
        IN  Play(r2)
    ELSE
        LET r1 == [r EXCEPT !.loop = r.transwaveEnabled]
            r2 == IF r1.isPlaying THEN PlayerStopAt(r1) ELSE r1
        IN  Play(r2)

\* Mutant of ReleaseBody: release stops only a voice flagged as playing.
ReleaseBody_OnlyIfFlagged(r) ==
    IF r.mode = "gate" /\ r.isPlaying THEN StopAt(r) ELSE r

\* SamplerVoice.release(time)
ReleaseBody(r) == IF r.mode = "gate" THEN StopAt(r) ELSE r

\* SamplerService.silenceChokeGroup(groupId, excludePadId)
SilenceChokeGroup(vs, g, excl) ==
    [w \in Voices |->
        IF vs[w].chokeGroup = g /\ w # excl THEN StopNow(vs[w]) ELSE vs[w]]

\* A voice at rest: not playing, nothing scheduled, no notification pending.
Stopped(r) ==
    ~r.isPlaying /\ ~r.sounding /\ r.sched = <<>> /\ r.ended = 0

\* The state the player is in once every scheduled event has run.
FinalSounding(r) ==
    IF r.sched = <<>> THEN r.sounding ELSE r.sched[Len(r.sched)] = "start"

WithinPlayerBounds(r) == Len(r.sched) <= MaxSched /\ r.ended <= MaxEnded

\* History kept for a trigger body run on voice v (before-state r).
TrigRunAfter(v, r) ==
    IF Stopped(r) THEN 1
    ELSE IF lastOp[v] = "T" /\ trigRun[v] = 1 THEN 2
    ELSE 0

RunTrigger(v) ==
    /\ voices' = [voices EXCEPT ![v] = TriggerBody(voices[v])]
    /\ lastOp' = [lastOp EXCEPT ![v] = "T"]
    /\ trigRun' = [trigRun EXCEPT ![v] = TrigRunAfter(v, voices[v])]

InitSampler ==
    /\ ctxState \in {"suspended", "running"}
    /\ voices \in {vs \in [Voices -> {NewVoice(g) : g \in Groups}] :
                        \A v \in Voices \ {2} : vs[v].chokeGroup # NoGroup}
    /\ pendingTrig = <<>>
    /\ draining = FALSE
    /\ lastOp = [v \in Voices |-> "-"]
    /\ trigRun = [v \in Voices |-> 0]
    /\ calls = 0

\* SamplerVoice.load(url, name): the player's load promise resolves.
Load(v) ==
    /\ UNCHANGED nonSamplerVars
    /\ ~draining
    /\ ~voices[v].loaded
    /\ voices' = [voices EXCEPT ![v].loaded = TRUE]
    /\ UNCHANGED <<ctxState, pendingTrig, draining, lastOp, trigRun, calls>>

\* SamplerVoice.setMode(mode): a valid mode is stored and the voice stopped.
SetMode(v, m) ==
    /\ UNCHANGED nonSamplerVars
    /\ ~draining
    /\ calls < MaxCalls
    /\ LET r == StopNow([voices[v] EXCEPT !.mode = m])
       IN  /\ WithinPlayerBounds(r)
           /\ voices' = [voices EXCEPT ![v] = r]
    /\ lastOp' = [lastOp EXCEPT ![v] = "-"]
    /\ trigRun' = [trigRun EXCEPT ![v] = 0]
    /\ calls' = calls + 1
    /\ UNCHANGED <<ctxState, pendingTrig, draining>>

\* SamplerService.triggerPad(padId): choke the group, then voice.trigger().
\* trigger() returns at once on an unloaded player, runs to the end when the
\* context is running, and otherwise waits for Tone.start().
TriggerPad(v) ==
    /\ UNCHANGED nonSamplerVars
    /\ ~draining
    /\ calls < MaxCalls
    /\ calls' = calls + 1
    /\ LET g == voices[v].chokeGroup
           vs == IF g # NoGroup THEN SilenceChokeGroup(voices, g, v) ELSE voices
           choked == {w \in Voices : vs[w] # voices[w]}
           lo == [w \in Voices |-> IF w \in choked THEN "-" ELSE lastOp[w]]
           tr == [w \in Voices |-> IF w \in choked THEN 0 ELSE trigRun[w]]
       IN  /\ \A w \in Voices : WithinPlayerBounds(vs[w])
           /\ IF ~vs[v].loaded THEN
                  /\ voices' = vs /\ lastOp' = lo /\ trigRun' = tr
                  /\ UNCHANGED <<ctxState, pendingTrig, draining>>
              ELSE IF ctxState # "running" THEN
                  /\ Len(pendingTrig) < NumVoices + 1
                  /\ pendingTrig' = Append(pendingTrig, v)
                  /\ voices' = vs /\ lastOp' = lo /\ trigRun' = tr
                  /\ UNCHANGED <<ctxState, draining>>
              ELSE
                  /\ WithinPlayerBounds(TriggerBody(vs[v]))
                  /\ voices' = [vs EXCEPT ![v] = TriggerBody(vs[v])]
                  /\ lastOp' = [lo EXCEPT ![v] = "T"]
                  /\ trigRun' = [tr EXCEPT ![v] = TrigRunAfter(v, vs[v])]
                  /\ UNCHANGED <<ctxState, pendingTrig, draining>>

\* SamplerService.releasePad(padId)
ReleasePad(v) ==
    /\ UNCHANGED nonSamplerVars
    /\ ~draining
    /\ calls < MaxCalls
    /\ calls' = calls + 1
    /\ WithinPlayerBounds(ReleaseBody(voices[v]))
    /\ voices' = [voices EXCEPT ![v] = ReleaseBody(voices[v])]
    /\ lastOp' = [lastOp EXCEPT ![v] = IF \E i \in DOMAIN pendingTrig :
                                             pendingTrig[i] = v
                                       THEN "Rp" ELSE "R"]
    /\ UNCHANGED trigRun
    /\ UNCHANGED <<ctxState, pendingTrig, draining>>

\* The context resumes: every pending Tone.start() promise resolves, and the
\* suspended trigger() calls continue, oldest first, before any other task.
ContextResumed ==
    /\ UNCHANGED nonSamplerVars
    /\ ~draining
    /\ ctxState = "suspended"
    /\ pendingTrig # <<>>
    /\ ctxState' = "running"
    /\ draining' = TRUE
    /\ UNCHANGED <<voices, pendingTrig, lastOp, trigRun, calls>>

\* The continuation of one trigger() after `await Tone.start()`.
ContinueTrigger ==
    /\ UNCHANGED nonSamplerVars
    /\ draining
    /\ pendingTrig # <<>>
    /\ LET v == Head(pendingTrig)
       IN  /\ WithinPlayerBounds(TriggerBody(voices[v]))
           /\ RunTrigger(v)
    /\ pendingTrig' = Tail(pendingTrig)
    /\ draining' = (Tail(pendingTrig) # <<>>)
    /\ UNCHANGED <<ctxState, calls>>

\* Tone.start() rejects: the error is logged and trigger() goes on with the
\* context still suspended.
StartRejected ==
    /\ UNCHANGED nonSamplerVars
    /\ ~draining
    /\ ctxState = "suspended"
    /\ pendingTrig # <<>>
    /\ LET v == Head(pendingTrig)
       IN  /\ WithinPlayerBounds(TriggerBody(voices[v]))
           /\ RunTrigger(v)
    /\ pendingTrig' = Tail(pendingTrig)
    /\ UNCHANGED <<ctxState, draining, calls>>

\* The rendering clock reaches the next scheduled event of a player.
PlayerAdvance(v) ==
    /\ UNCHANGED nonSamplerVars
    /\ ~draining
    /\ ctxState = "running"
    /\ voices[v].sched # <<>>
    /\ LET r == voices[v]
           ev == Head(r.sched)
           endsOne == r.sounding
           r1 == [r EXCEPT !.sched = Tail(r.sched),
                           !.sounding = (ev = "start"),
                           !.ended = r.ended + (IF endsOne THEN 1 ELSE 0)]
       IN  /\ WithinPlayerBounds(r1)
           /\ voices' = [voices EXCEPT ![v] = r1]
    /\ UNCHANGED <<ctxState, pendingTrig, draining, lastOp, trigRun, calls>>

\* A source that does not loop reaches the end of its buffer.
NaturalEnd(v) ==
    /\ UNCHANGED nonSamplerVars
    /\ ~draining
    /\ ctxState = "running"
    /\ voices[v].sounding
    /\ ~voices[v].loop
    /\ voices[v].ended < MaxEnded
    /\ voices' = [voices EXCEPT ![v].sounding = FALSE,
                                ![v].ended = voices[v].ended + 1]
    /\ UNCHANGED <<ctxState, pendingTrig, draining, lastOp, trigRun, calls>>

\* player.onstop = () => { this._isPlaying = false; }
OnStop(v) ==
    /\ UNCHANGED nonSamplerVars
    /\ ~draining
    /\ voices[v].ended > 0
    /\ voices' = [voices EXCEPT ![v].ended = voices[v].ended - 1,
                                ![v].isPlaying = FALSE]
    /\ UNCHANGED <<ctxState, pendingTrig, draining, lastOp, trigRun, calls>>

NextSampler ==
    \/ \E v \in Voices : Load(v)
    \/ \E v \in Voices, m \in Modes : SetMode(v, m)
    \/ \E v \in Voices : TriggerPad(v)
    \/ \E v \in Voices : ReleasePad(v)
    \/ ContextResumed
    \/ ContinueTrigger
    \/ StartRejected
    \/ \E v \in Voices : PlayerAdvance(v)
    \/ \E v \in Voices : NaturalEnd(v)
    \/ \E v \in Voices : OnStop(v)

\* The sampler as constructed, for the specifications of the other parts.
IdleSampler ==
    /\ ctxState = "suspended"
    /\ voices = [v \in Voices |-> NewVoice(NoGroup)]
    /\ pendingTrig = <<>>
    /\ draining = FALSE
    /\ lastOp = [v \in Voices |-> "-"]
    /\ trigRun = [v \in Voices |-> 0]
    /\ calls = 0

(***************************************************************************)
(* SHARED CAPTURE STREAMS: AudioContextManager.getSharedInputStream        *)
(***************************************************************************)
Callers == 1..NumCallers
DeviceIds == {"null", "default", "mic1"}    \* "null": no device id given
NoStream == 0
StreamIds == 1..MaxStreams

\* const key = deviceId || 'default'
CacheKey(deviceId) == IF deviceId = "null" THEN "default" ELSE deviceId

CacheKeys == {CacheKey(d) : d \in DeviceIds}

IdleCall == [pc |-> "idle", deviceId |-> "null", result |-> NoStream]

\* this.inputStreams = new Map()
IdleStream ==
    /\ inputStreams = [k \in CacheKeys |-> NoStream]
    /\ streams = <<>>
    /\ getCalls = [c \in Callers |-> IdleCall]

\* The streams that are live (stream.active) and were opened for key k.
LiveStreamsOf(k) ==
    {i \in DOMAIN streams : streams[i].key = k /\ streams[i].active}

\* getSharedInputStream(deviceId) up to its return or to the await of
\* getUserMedia: an active cached stream is returned, an inactive one is
\* dropped from the cache and a new capture is negotiated.
GetSharedInputStream(c, d) ==
    /\ UNCHANGED nonStreamVars
    /\ getCalls[c].pc # "negotiating"
    /\ LET key == CacheKey(d)
           cached == inputStreams[key]
       IN  IF cached # NoStream /\ streams[cached].active THEN
               /\ getCalls' = [getCalls EXCEPT ![c] =
                      [pc |-> "returned", deviceId |-> d, result |-> cached]]
               /\ UNCHANGED <<inputStreams, streams>>
           ELSE
               /\ Len(streams) + Cardinality({x \in Callers :
                        getCalls[x].pc = "negotiating"}) < MaxStreams
               /\ inputStreams' = [inputStreams EXCEPT ![key] = NoStream]
               /\ getCalls' = [getCalls EXCEPT ![c] =
                      [pc |-> "negotiating", deviceId |-> d, result |-> NoStream]]
               /\ UNCHANGED streams

\* getUserMedia resolves with a new stream: it is cached and returned.
NegotiationResolves(c) ==
    /\ UNCHANGED nonStreamVars
    /\ getCalls[c].pc = "negotiating"
    /\ LET key == CacheKey(getCalls[c].deviceId)
           id == Len(streams) + 1
       IN  /\ streams' = Append(streams, [key |-> key, active |-> TRUE])
           /\ inputStreams' = [inputStreams EXCEPT ![key] = id]
           /\ getCalls' = [getCalls EXCEPT ![c].pc = "returned", ![c].result = id]

\* getUserMedia rejects: the call throws, the cache is left as it is.
NegotiationRejects(c) ==
    /\ UNCHANGED nonStreamVars
    /\ getCalls[c].pc = "negotiating"
    /\ getCalls' = [getCalls EXCEPT ![c].pc = "failed"]
    /\ UNCHANGED <<inputStreams, streams>>

\* The hardware ends a capture (device unplugged): stream.active turns false.
HardwareEnds(i) ==
    /\ UNCHANGED nonStreamVars
    /\ i \in DOMAIN streams
    /\ streams[i].active
    /\ streams' = [streams EXCEPT ![i].active = FALSE]
    /\ UNCHANGED <<inputStreams, getCalls>>

NextStream ==
    \/ \E c \in Callers, d \in DeviceIds : GetSharedInputStream(c, d)
    \/ \E c \in Callers : NegotiationResolves(c)
    \/ \E c \in Callers : NegotiationRejects(c)
    \/ \E i \in StreamIds : HardwareEnds(i)

(***************************************************************************)
(* TRACK RECORDING: TrackAudio.startRecording / stopRecording and the      *)
(* PCMRecorder they drive.  Lengths are sample counts per channel.         *)
(***************************************************************************)

DurationsMs == {0, 2, 50, 128}      \* the duration argument; 0: none given

Min(a, b) == IF a <= b THEN a ELSE b

\* Math.floor(duration * sr), the duration taken in milliseconds
TargetSampleCount(ms) == (ms * SampleRate) \div 1000

\* new PCMRecorder(context).  targetSampleCount and latencySamples are
\* undefined (0 / FALSE here); leftBuffers holds the length of each chunk and
\* `disposed` says that leftBuffers is null.
NewRecorder ==
    [isRecording |-> FALSE, recordingLength |-> 0, leftBuffers |-> <<>>,
     targetSampleCount |-> 0, workletNode |-> FALSE, onComplete |-> FALSE,
     latencySet |-> FALSE, disposed |-> FALSE]

\* PCMRecorder.dispose()
Dispose(rec) ==
    [rec EXCEPT !.isRecording = FALSE, !.workletNode = FALSE, !.disposed = TRUE]

\* Variant: the old recorder is disposed and kept.
ReplaceRecorder_DisposeOnly(rec, ms) ==
    [Dispose(rec) EXCEPT !.targetSampleCount =
                              IF ms # 0 THEN TargetSampleCount(ms) ELSE @]

\* startRecording: dispose the old recorder, build a new one, set its target
\* when a duration is given (the old recorder becomes unreachable).
ReplaceRecorder(rec, ms) ==
    [NewRecorder EXCEPT !.targetSampleCount =
                             IF ms # 0 THEN TargetSampleCount(ms) ELSE @]

\* PCMRecorder.start(), after the context check: the buffers are reset.
StartReset(rec) ==
    [rec EXCEPT !.leftBuffers = <<>>, !.recordingLength = 0, !.disposed = FALSE]

\* PCMRecorder.start(), after the registration check: latency computed,
\* worklet node created and connected, isRecording = true.
Activate(rec) ==
    [rec EXCEPT !.latencySet = TRUE, !.workletNode = TRUE, !.isRecording = TRUE]

\* Variant: no clipping to the target.
FinalLength_NoClip(rec) == rec.recordingLength

\* stop(): targetSampleCount ? Math.min(recordingLength, target) : recordingLength
FinalLength(rec) ==
    IF rec.targetSampleCount # 0
    THEN Min(rec.recordingLength, rec.targetSampleCount)
    ELSE rec.recordingLength

\* _mergeBuffers: the number of samples copied into the result, whose length
\* is totalTargetLength.
RECURSIVE MergeBuffers(_, _, _)
MergeBuffers(buffers, totalTargetLength, offset) ==
    IF buffers = <<>> \/ totalTargetLength - offset <= 0
    THEN offset
    ELSE MergeBuffers(Tail(buffers), totalTargetLength,
                      offset + Min(Head(buffers), totalTargetLength - offset))

\* The state stop() leaves the recorder in.
StopRecorder(rec) ==
    [rec EXCEPT !.isRecording = FALSE, !.onComplete = FALSE, !.workletNode = FALSE]

\* stop() without the silent buffer for a recording of no samples
StopResult_NoDummy(rec, pc) ==
    IF rec.disposed
    THEN [raised |-> TRUE, len |-> 0, filled |-> 0,
          recorded |-> rec.recordingLength, target |-> rec.targetSampleCount,
          started |-> rec.latencySet, pcAt |-> pc]
    ELSE LET finalLength == FinalLength(rec)
             copied == MergeBuffers(rec.leftBuffers, finalLength, 0)
         IN [raised |-> FALSE, len |-> finalLength, filled |-> copied,
             recorded |-> rec.recordingLength, target |-> rec.targetSampleCount,
             started |-> rec.latencySet, pcAt |-> pc]

\* What stop() hands back when called at position pc of startRecording:
\* len is the length of the encoded buffer, filled the samples it took from
\* the chunks (all of it for the silent buffer); a null leftBuffers raises.
StopResult(rec, pc) ==
    IF rec.disposed
    THEN [raised |-> TRUE, len |-> 0, filled |-> 0,
          recorded |-> rec.recordingLength, target |-> rec.targetSampleCount,
          started |-> rec.latencySet, pcAt |-> pc]
    ELSE LET finalLength == FinalLength(rec)
             copied == MergeBuffers(rec.leftBuffers, finalLength, 0)
         IN [raised |-> FALSE,
             len |-> IF finalLength = 0 THEN DummyLength ELSE finalLength,
             filled |-> IF finalLength = 0 THEN DummyLength ELSE copied,
             recorded |-> rec.recordingLength, target |-> rec.targetSampleCount,
             started |-> rec.latencySet, pcAt |-> pc]

NoStop ==
    [raised |-> FALSE, len |-> 0, filled |-> 0, recorded |-> 0, target |-> 0,
     started |-> FALSE, pcAt |-> "none"]

\* The track as constructed: this.recorder = new PCMRecorder(...)
IdleRec ==
    /\ recPc = "idle"
    /\ recDuration = 0
    /\ recorder = NewRecorder
    /\ registered = FALSE
    /\ inflight = 0
    /\ posted = 0
    /\ completeCalls = 0
    /\ lastStop = NoStop
    /\ stops = 0
    /\ starts = 0

\* AudioContextManager.init asks for the registration without awaiting it, so
\* the module may or may not be registered when the first recording starts.
InitRec ==
    /\ recPc = "idle"
    /\ recDuration = 0
    /\ recorder = NewRecorder
    /\ registered \in BOOLEAN
    /\ inflight = 0
    /\ posted = 0
    /\ completeCalls = 0
    /\ lastStop = NoStop
    /\ stops = 0
    /\ starts = 0

\* startRecording past its two guards: recorder replaced, 100 ms wait begun.
EnterDelay(ms) ==
    /\ recorder' = ReplaceRecorder(recorder, ms)
    /\ inflight' = 0
    /\ recPc' = "delay"

\* recorder.start() past the context check: buffers reset, then either the
\* registration is awaited or the capture begins.
BeginCapture ==
    IF registered
    THEN /\ recorder' = Activate(StartReset(recorder))
         /\ recPc' = "returned"
    ELSE /\ recorder' = StartReset(recorder)
         /\ recPc' = "register"

\* TrackAudio.startRecording(duration), up to its first await.  `running` is
\* whether the context runs, `haveInput` whether a live input is connected.
StartRecording(ms, running, haveInput) ==
    /\ UNCHANGED nonRecVars
    /\ recPc = "idle"
    /\ starts < MaxStarts
    /\ starts' = starts + 1
    /\ recDuration' = ms
    /\ IF ~running
       THEN recPc' = "ctxResume" /\ UNCHANGED <<recorder, inflight>>
       ELSE IF ~haveInput
            THEN recPc' = "connectInput" /\ UNCHANGED <<recorder, inflight>>
            ELSE EnterDelay(ms)
    /\ UNCHANGED <<registered, posted, completeCalls, lastStop, stops>>

\* `await Tone.context.resume()` settles; a rejection is caught and logged.
CtxResumeSettles(haveInput) ==
    /\ UNCHANGED nonRecVars
    /\ recPc = "ctxResume"
    /\ IF ~haveInput
       THEN recPc' = "connectInput" /\ UNCHANGED <<recorder, inflight>>
       ELSE EnterDelay(recDuration)
    /\ UNCHANGED <<recDuration, registered, posted, completeCalls, lastStop,
                   stops, starts>>

\* `await this.connectInput('mic', ...)` settles; a rejection is rethrown.
ConnectInputSettles(ok) ==
    /\ UNCHANGED nonRecVars
    /\ recPc = "connectInput"
    /\ IF ok
       THEN EnterDelay(recDuration)
       ELSE recPc' = "idle" /\ UNCHANGED <<recorder, inflight>>
    /\ UNCHANGED <<recDuration, registered, posted, completeCalls, lastStop,
                   stops, starts>>

\* The 100 ms wait ends: bridge, then this.recorder.start() up to its first
\* await.  `baseRunning` is whether the base context runs.
DelayElapses(baseRunning) ==
    /\ UNCHANGED nonRecVars
    /\ recPc = "delay"
    /\ IF baseRunning
       THEN BeginCapture
       ELSE recPc' = "recResume" /\ UNCHANGED recorder
    /\ UNCHANGED <<recDuration, registered, inflight, posted, completeCalls,
                   lastStop, stops, starts>>

\* start(): `await this._baseAudioContext.resume()` settles; a rejection makes
\* start() and startRecording throw.
RecResumeSettles(ok) ==
    /\ UNCHANGED nonRecVars
    /\ recPc = "recResume"
    /\ IF ok
       THEN BeginCapture
       ELSE recPc' = "idle" /\ UNCHANGED recorder
    /\ UNCHANGED <<recDuration, registered, inflight, posted, completeCalls,
                   lastStop, stops, starts>>

\* start(): `await PCMRecorder.registerModule(...)` settles.
RegisterSettles(ok) ==
    /\ UNCHANGED nonRecVars
    /\ recPc = "register"
    /\ IF ok
       THEN /\ registered' = TRUE
            /\ recorder' = Activate(recorder)
            /\ recPc' = "returned"
       ELSE /\ recPc' = "idle"
            /\ UNCHANGED <<registered, recorder>>
    /\ UNCHANGED <<recDuration, inflight, posted, completeCalls, lastStop,
                   stops, starts>>

\* startTrackRecording after `await startRecording`: the completion callback
\* is installed on the track's recorder.
SetOnComplete ==
    /\ UNCHANGED nonRecVars
    /\ recPc = "returned"
    /\ recPc' = "idle"
    /\ recorder' = [recorder EXCEPT !.onComplete = TRUE]
    /\ UNCHANGED <<recDuration, registered, inflight, posted, completeCalls,
                   lastStop, stops, starts>>

\* RecorderProcessor.process: a batch of bufferSize samples is posted.
PostData ==
    /\ UNCHANGED nonRecVars
    /\ recorder.workletNode
    /\ posted < MaxBatches
    /\ posted' = posted + 1
    /\ inflight' = inflight + 1
    /\ UNCHANGED <<recPc, recDuration, recorder, registered, completeCalls,
                   lastStop, stops, starts>>

\* onmessage that goes on recording past the target
HandleData_NoAutoStop ==
    /\ UNCHANGED nonRecVars
    /\ inflight > 0
    /\ inflight' = inflight - 1
    /\ IF ~recorder.isRecording
       THEN UNCHANGED <<recorder, completeCalls>>
       ELSE LET length == recorder.recordingLength + BufferSize
                reached == recorder.targetSampleCount # 0
                           /\ length >= recorder.targetSampleCount
            IN /\ recorder' =
                     [recorder EXCEPT
                          !.leftBuffers = Append(@, BufferSize),
                          !.recordingLength = length]
               /\ completeCalls' =
                     IF reached /\ recorder.onComplete
                     THEN completeCalls + 1 ELSE completeCalls
    /\ UNCHANGED <<recPc, recDuration, registered, posted, lastStop, stops,
                   starts>>

\* workletNode.port.onmessage for a 'data' message.
HandleData ==
    /\ UNCHANGED nonRecVars
    /\ inflight > 0
    /\ inflight' = inflight - 1
    /\ IF ~recorder.isRecording
       THEN UNCHANGED <<recorder, completeCalls>>
       ELSE LET length == recorder.recordingLength + BufferSize
                reached == recorder.targetSampleCount # 0
                           /\ length >= recorder.targetSampleCount
            IN /\ recorder' =
                     [recorder EXCEPT
                          !.leftBuffers = Append(@, BufferSize),
                          !.recordingLength = length,
                          !.isRecording = ~reached]
               /\ completeCalls' =
                     IF reached /\ recorder.onComplete
                     THEN completeCalls + 1 ELSE completeCalls
    /\ UNCHANGED <<recPc, recDuration, registered, posted, lastStop, stops,
                   starts>>

\* TrackAudio.stopRecording(): `await this.recorder.stop()`; stop() has no
\* await of its own, so it runs to its return in one step.
StopRecording ==
    /\ UNCHANGED nonRecVars
    /\ stops < MaxStops
    /\ stops' = stops + 1
    /\ lastStop' = StopResult(recorder, recPc)
    /\ recorder' = StopRecorder(recorder)
    /\ UNCHANGED <<recPc, recDuration, registered, inflight, posted,
                   completeCalls, starts>>

NextRec ==
    \/ \E ms \in DurationsMs, running \in BOOLEAN, haveInput \in BOOLEAN :
           StartRecording(ms, running, haveInput)
    \/ \E haveInput \in BOOLEAN : CtxResumeSettles(haveInput)
    \/ \E ok \in BOOLEAN : ConnectInputSettles(ok)
    \/ \E baseRunning \in BOOLEAN : DelayElapses(baseRunning)
    \/ \E ok \in BOOLEAN : RecResumeSettles(ok)
    \/ \E ok \in BOOLEAN : RegisterSettles(ok)
    \/ SetOnComplete
    \/ PostData
    \/ HandleData
    \/ StopRecording

(***************************************************************************)
(* LFO ROUTING: TrackAudio.connectLFO / disconnectLFO / updateLfoRange /   *)
(* setLfoReversal.  Audio nodes are numbers: 1 and 2 are the manager's two *)
(* LFOs, 11 and 12 the volume and pitch parameters, numbers above 100 the  *)
(* Scale / Multiply / Add nodes built by connectLFO.                       *)
(***************************************************************************)

ParamNames == {"volume", "pitch", "slot0.wet", "bogus"}

\* getAudioParamByName: the parameter node, 0 for null; `slot0.wet` is the
\* wet control of the effect in slot 0, when there is one.
GetAudioParamByName(paramName) ==
    CASE paramName = "volume" -> 11
      [] paramName = "pitch" -> 12
      [] paramName = "slot0.wet" ->
            IF effects[0] # 0 THEN 20 + effects[0] ELSE 0
      [] OTHER -> 0

\* AudioContextManager.getLfo: null (0) until init has built the LFOs
GetLfo(index) == IF ~lfoReady THEN 0 ELSE IF index = 1 THEN 1 ELSE 2

\* No entry in the lfoConnections map.
NoConn ==
    [scale |-> 0, negate |-> 0, addMax |-> 0, param |-> 0, source |-> 0,
     min |-> 0, max |-> 0, addend |-> 0]

\* The connections connectLFO makes for an entry, which are the ones
\* disconnectLFO names.
ChainOf(conn) ==
    IF conn.negate # 0
    THEN {<<conn.source, conn.scale>>, <<conn.scale, conn.negate>>,
          <<conn.negate, conn.addMax>>, <<conn.addMax, conn.param>>}
    ELSE {<<conn.source, conn.scale>>, <<conn.scale, conn.param>>}

\* Variant: nothing is disconnected.
Disconnected_Nothing(edges, conn) == edges

\* disconnectLFO on an entry: its connections are removed and its scale,
\* negate and addMax nodes disposed, which removes whatever touches them.
Disconnected(edges, conn) ==
    LET gone == {conn.scale, conn.negate, conn.addMax} \ {0}
    IN IF conn = NoConn THEN edges
       ELSE {e \in edges \ ChainOf(conn) : e[1] \notin gone /\ e[2] \notin gone}

\* connectLFO(paramName, min, max, lfoIndex) with lfoReverseState[paramName]
\* = reversed: the edges, the map entry and the node counter it leaves.
ConnectResult(paramName, min, max, lfoIndex, reversed) ==
    LET edges == Disconnected(lfoEdges, lfoConnections[paramName])
        param == GetAudioParamByName(paramName)
        lfoNode == GetLfo(lfoIndex)
        conn == IF reversed
                THEN [scale |-> 101 + nextNode, negate |-> 102 + nextNode,
                      addMax |-> 103 + nextNode, param |-> param,
                      source |-> lfoNode, min |-> min, max |-> max,
                      addend |-> max]
                ELSE [scale |-> 101 + nextNode, negate |-> 0, addMax |-> 0,
                      param |-> param, source |-> lfoNode, min |-> min,
                      max |-> max, addend |-> 0]
    IN IF param = 0 \/ lfoNode = 0
       THEN [edges |-> edges, conn |-> NoConn, next |-> nextNode]
       ELSE [edges |-> edges \cup ChainOf(conn), conn |-> conn,
             next |-> nextNode + (IF reversed THEN 3 ELSE 1)]

\* What the chain of an entry delivers to its parameter for the LFO output
\* x (the LFOs are built with the range -1..1): Tone.Scale(min, max) gives
\* x * (max - min) + min, the reversed chain negates that and adds addend.
Delivered(conn, x) ==
    LET scaled == x * (conn.max - conn.min) + conn.min
    IN  IF conn.negate # 0 THEN (-1) * scaled + conn.addend ELSE scaled

\* The track and the manager as constructed: no binding, no LFO yet.
IdleLfo ==
    /\ lfoConnections = [p \in ParamNames |-> NoConn]
    /\ lfoReverseState = [p \in ParamNames |-> FALSE]
    /\ lfoEdges = {}
    /\ nextNode = 0
    /\ lfoReady = FALSE
    /\ prevSource = [p \in ParamNames |-> 0]

\* AudioContextManager.init builds the two LFOs.
InitManager ==
    /\ UNCHANGED nonLfoVars
    /\ ~lfoReady
    /\ lfoReady' = TRUE
    /\ UNCHANGED <<lfoConnections, lfoReverseState, lfoEdges, nextNode, prevSource>>

ConnectLFO(paramName, range, lfoIndex) ==
    /\ UNCHANGED nonLfoVars
    /\ nextNode + 3 <= MaxLfoNodes
    /\ LET res == ConnectResult(paramName, range[1], range[2], lfoIndex,
                                lfoReverseState[paramName])
       IN /\ lfoEdges' = res.edges
          /\ lfoConnections' = [lfoConnections EXCEPT ![paramName] = res.conn]
          /\ nextNode' = res.next
    /\ prevSource' = [prevSource EXCEPT
                          ![paramName] = lfoConnections[paramName].source]
    /\ UNCHANGED <<lfoReverseState, lfoReady>>

DisconnectLFO(paramName) ==
    /\ UNCHANGED nonLfoVars
    /\ lfoEdges' = Disconnected(lfoEdges, lfoConnections[paramName])
    /\ lfoConnections' = [lfoConnections EXCEPT ![paramName] = NoConn]
    /\ prevSource' = [prevSource EXCEPT ![paramName] = 0]
    /\ UNCHANGED <<lfoReverseState, nextNode, lfoReady>>

UpdateLfoRange(paramName, range) ==
    /\ UNCHANGED nonLfoVars
    /\ LET conn == lfoConnections[paramName]
       IN lfoConnections' =
             [lfoConnections EXCEPT ![paramName] =
                  IF conn.scale = 0 THEN conn
                  ELSE [conn EXCEPT
                            !.min = range[1], !.max = range[2],
                            !.addend = IF conn.negate # 0 THEN range[2] ELSE @]]
    /\ UNCHANGED <<lfoReverseState, lfoEdges, nextNode, lfoReady, prevSource>>

\* setLfoReversal: a live entry is rebuilt with its own range on LFO 2 when
\* its source is LFO 2, on LFO 1 otherwise.
SetLfoReversal(paramName, reversed) ==
    /\ UNCHANGED nonLfoVars
    /\ nextNode + 3 <= MaxLfoNodes
    /\ LET conn == lfoConnections[paramName]
           res == ConnectResult(paramName, conn.min, conn.max,
                                IF conn.source = GetLfo(2) THEN 2 ELSE 1,
                                reversed)
       IN IF lfoReverseState[paramName] = reversed
          THEN UNCHANGED <<lfoReverseState, lfoEdges, lfoConnections, nextNode,
                           prevSource>>
          ELSE /\ lfoReverseState' =
                     [lfoReverseState EXCEPT ![paramName] = reversed]
               /\ prevSource' = [prevSource EXCEPT ![paramName] = 0]
               /\ IF conn.scale = 0
                  THEN UNCHANGED <<lfoEdges, lfoConnections, nextNode>>
                  ELSE /\ lfoEdges' = res.edges
                       /\ lfoConnections' =
                             [lfoConnections EXCEPT ![paramName] = res.conn]
                       /\ nextNode' = res.next
    /\ UNCHANGED lfoReady

NextLfo ==
    \/ InitManager
    \/ \E p \in ParamNames, r \in {<<0, 1>>, <<1, 2>>}, i \in {1, 2, 3} :
           ConnectLFO(p, r, i)
    \/ \E p \in ParamNames : DisconnectLFO(p)
    \/ \E p \in ParamNames, r \in {<<0, 1>>, <<1, 2>>} : UpdateLfoRange(p, r)
    \/ \E p \in ParamNames, b \in BOOLEAN : SetLfoReversal(p, b)

(***************************************************************************)
(* LOOP TRANSPORT: TrackAudio.getCurrentPosition and what sets its inputs. *)
(* Times and positions are whole numbers of half a time unit; the clock    *)
(* advances two of them at a time and the playback rate is rateNum / 2, so *)
(* that the elapsed position is a whole number.                            *)
(***************************************************************************)

\* JavaScript's a % b: the remainder has the sign of the dividend.
JsRem(a, b) == IF a >= 0 THEN a % b ELSE -((-a) % b)

\* JavaScript's a || b on numbers: b when a is 0 (or undefined).
OrElse(a, b) == IF a # 0 THEN a ELSE b

\* setPitch: rate = 2 ^ (((value / 100) * 12) / 12), as a number of halves
RateOfPitch(value) ==
    CASE value = -100 -> 1
      [] value = 0 -> 2
      [] value = 100 -> 4

Elapsed == ((now - playStartTime) * rateNum) \div 2
LoopStartOr0 == OrElse(loopStart, 0)
LoopEndOrDuration == OrElse(loopEnd, duration)
LoopLen == LoopEndOrDuration - LoopStartOr0

\* getCurrentPosition, loop branch, for player.reverse = rev
LoopedPosition(rev) ==
    LET startOffset == OrElse(playStartOffset, LoopStartOr0)
        relStart == startOffset - LoopStartOr0
        back == JsRem(relStart - Elapsed, LoopLen)
    IN IF rev
       THEN LoopStartOr0 + (IF back < 0 THEN back + LoopLen ELSE back)
       ELSE LoopStartOr0 + JsRem(relStart + Elapsed, LoopLen)

\* getCurrentPosition while the player is started and the recorder is not
\* recording; player.loop is true from the first load on.
GetCurrentPosition ==
    IF duration = 0 THEN 0
    ELSE IF LoopLen > 0 THEN LoopedPosition(reverse)
    ELSE IF reverse
         THEN (IF OrElse(playStartOffset, duration) - Elapsed > 0
               THEN OrElse(playStartOffset, duration) - Elapsed ELSE 0)
         ELSE Min(duration, playStartOffset + Elapsed)

\* The track as constructed: nothing loaded, player stopped, rate 1.
IdleLoop ==
    /\ duration = 0
    /\ loopStart = 0
    /\ loopEnd = 0
    /\ playStartOffset = 0
    /\ playStartTime = 0
    /\ playerState = "stopped"
    /\ reverse = FALSE
    /\ rateNum = 2
    /\ now = 0

\* loadUrl / loadArrayBuffer: a buffer of duration d is loaded.
LoadUrl(d) ==
    /\ UNCHANGED nonLoopVars
    /\ duration' = d
    /\ loopStart' = 0
    /\ loopEnd' = d
    /\ UNCHANGED <<playStartOffset, playStartTime, playerState, reverse,
                   rateNum, now>>

SetLoopStart(time) ==
    /\ UNCHANGED nonLoopVars
    /\ loopStart' = time
    /\ UNCHANGED <<duration, loopEnd, playStartOffset, playStartTime,
                   playerState, reverse, rateNum, now>>

SetLoopEnd(time) ==
    /\ UNCHANGED nonLoopVars
    /\ loopEnd' = time
    /\ UNCHANGED <<duration, loopStart, playStartOffset, playStartTime,
                   playerState, reverse, rateNum, now>>

\* startPlayback(offset); given = FALSE is the call without an offset.
StartPlayback(offset, given) ==
    /\ UNCHANGED nonLoopVars
    /\ duration # 0
    /\ LET startPos == IF given THEN offset ELSE loopStart
       IN playStartOffset' = IF startPos >= duration THEN 0 ELSE startPos
    /\ playStartTime' = now
    /\ playerState' = "started"
    /\ UNCHANGED <<duration, loopStart, loopEnd, reverse, rateNum, now>>

StopPlayback ==
    /\ UNCHANGED nonLoopVars
    /\ playerState = "started"
    /\ playerState' = "stopped"
    /\ UNCHANGED <<duration, loopStart, loopEnd, playStartOffset,
                   playStartTime, reverse, rateNum, now>>

\* setPitch(value): _syncHead, then the new rate.
SetPitch(value) ==
    /\ UNCHANGED nonLoopVars
    /\ IF playerState = "started"
       THEN playStartOffset' = GetCurrentPosition /\ playStartTime' = now
       ELSE UNCHANGED <<playStartOffset, playStartTime>>
    /\ rateNum' = RateOfPitch(value)
    /\ UNCHANGED <<duration, loopStart, loopEnd, playerState, reverse, now>>

\* track.player.reverse = b
SetReverse(b) ==
    /\ UNCHANGED nonLoopVars
    /\ reverse' = b
    /\ UNCHANGED <<duration, loopStart, loopEnd, playStartOffset,
                   playStartTime, playerState, rateNum, now>>

\* Tone.now() advances.
Tick ==
    /\ UNCHANGED nonLoopVars
    /\ now < 2 * MaxTime
    /\ now' = now + 2
    /\ UNCHANGED <<duration, loopStart, loopEnd, playStartOffset,
                   playStartTime, playerState, reverse, rateNum>>

NextLoop ==
    \/ \E d \in {MaxPos - 1, MaxPos} : LoadUrl(d)
    \/ \E t \in 0..MaxPos : SetLoopStart(t)
    \/ \E t \in 0..MaxPos : SetLoopEnd(t)
    \/ \E o \in 0..MaxPos, given \in BOOLEAN : StartPlayback(o, given)
    \/ StopPlayback
    \/ \E v \in {-100, 0, 100} : SetPitch(v)
    \/ \E b \in BOOLEAN : SetReverse(b)
    \/ Tick

(***************************************************************************)
(* EFFECT CHAIN: TrackAudio.reconnectEffectChain and the calls that run    *)
(* it.  An effect is the number of its instance (0: null), and the chain's *)
(* connections are pairs of nodes.  Every effect comes from createEffect   *)
(* with enabled = true, and nothing in the program clears that flag.       *)
(***************************************************************************)

Slots == 0..(NumSlots - 1)
ChainInput == -1
ChainOutput == -2

\* The path reconnectEffectChain builds: chainInput, the non-null slots in
\* array order, the audition effect if any, chainOutput.
ChainPath(effs, audition) ==
    LET inSlots == SelectSeq([i \in 1..NumSlots |-> effs[i - 1]], LAMBDA e : e # 0)
        nodes == <<ChainInput>> \o inSlots
                   \o (IF audition # 0 THEN <<audition>> ELSE <<>>)
                   \o <<ChainOutput>>
    IN {<<nodes[i], nodes[i + 1]>> : i \in 1..(Len(nodes) - 1)}

\* reconnectEffectChain: chainInput.disconnect() drops the connections
\* leaving chainInput, and only those; then the path is connected.
ReconnectEffectChain(edges, effs, audition) ==
    {e \in edges : e[1] # ChainInput} \cup ChainPath(effs, audition)

\* effect.dispose(): every connection to or from the effect is gone.
DisposeEffect(edges, effect) ==
    {e \in edges : e[1] # effect /\ e[2] # effect}

\* The track as constructed: seven null slots, chainInput -> chainOutput.
IdleFx ==
    /\ effects = [s \in Slots |-> 0]
    /\ auditioningEffect = 0
    /\ chainEdges = {<<ChainInput, ChainOutput>>}
    /\ nextEffect = 0

\* setEffect(slotIndex, ...): `created` is whether createEffect returned an
\* effect.
SetEffect(slotIndex, created) ==
    /\ UNCHANGED nonFxVars
    /\ nextEffect < MaxEffects
    /\ IF ~created
       THEN UNCHANGED <<effects, chainEdges, nextEffect>>
       ELSE LET effs == [effects EXCEPT ![slotIndex] = nextEffect + 1]
            IN /\ nextEffect' = nextEffect + 1
               /\ effects' = effs
               /\ chainEdges' = ReconnectEffectChain(
                                    DisposeEffect(chainEdges, effects[slotIndex]),
                                    effs, auditioningEffect)
    /\ UNCHANGED auditioningEffect

SwapEffects(slotA, slotB) ==
    /\ UNCHANGED nonFxVars
    /\ IF slotA < 0 \/ slotA >= NumSlots \/ slotB < 0 \/ slotB >= NumSlots
       THEN UNCHANGED <<effects, chainEdges>>
       ELSE LET effs == [effects EXCEPT ![slotA] = effects[slotB],
                                         ![slotB] = effects[slotA]]
            IN /\ effects' = effs
               /\ chainEdges' = ReconnectEffectChain(chainEdges, effs,
                                                     auditioningEffect)
    /\ UNCHANGED <<auditioningEffect, nextEffect>>

TransferAuditionToSlot(slotIndex) ==
    /\ UNCHANGED nonFxVars
    /\ IF auditioningEffect = 0
       THEN UNCHANGED <<effects, auditioningEffect, chainEdges>>
       ELSE LET effs == [effects EXCEPT ![slotIndex] = auditioningEffect]
            IN /\ effects' = effs
               /\ auditioningEffect' = 0
               /\ chainEdges' = ReconnectEffectChain(
                                    DisposeEffect(chainEdges, effects[slotIndex]),
                                    effs, 0)
    /\ UNCHANGED nextEffect

\* The audition of an effect begins: the effect is created, becomes the
\* track's auditioningEffect and the chain is rebuilt.
StartAudition ==
    /\ UNCHANGED nonFxVars
    /\ nextEffect < MaxEffects
    /\ auditioningEffect = 0
    /\ nextEffect' = nextEffect + 1
    /\ auditioningEffect' = nextEffect + 1
    /\ chainEdges' = ReconnectEffectChain(chainEdges, effects, nextEffect + 1)
    /\ UNCHANGED effects

NextFx ==
    \/ \E s \in Slots, created \in BOOLEAN : SetEffect(s, created)
    \/ \E a, b \in -1..NumSlots : SwapEffects(a, b)
    \/ \E s \in Slots : TransferAuditionToSlot(s)
    \/ StartAudition

(***************************************************************************)
(* PAD ASSIGNMENT: SamplerService.assignSample, followed on one voice.     *)
(* assignSample touches the voice of its pad only, so the record `padv`    *)
(* holds one voice, whichever the run starts with: its pad id, its mode,   *)
(* where its player is connected ("outputBus", the "chain" of vintage      *)
(* nodes that ends in outputBus, or "none"), where its outputBus is        *)
(* connected (the sampler output or a track's chainInput), and the tracks  *)
(* initialized so far.  `last` remembers the latest assignSample call.     *)
(***************************************************************************)

SamplerOutput == <<"output", 0>>
\* `before` is the voice as the call found it (of the voice followed only).
NoBefore == [assignedUrl |-> "null", name |-> "", mode |-> "oneshot",
             playerTo |-> "outputBus", busTo |-> SamplerOutput]
NoAssign == [pad |-> -1, rejected |-> FALSE, ready |-> FALSE,
             before |-> NoBefore]

\* The settings of the character chain; wet amounts and the distortion are
\* in tenths.  NoChain stands for this.nodes = null.
NoChain ==
    [crusherWet |-> 0, crusherBits |-> 0, chorusWet |-> 0,
     filterType |-> "none", filterFrequency |-> 0, filterGain |-> 0,
     filterRolloff |-> 0, filter2Type |-> "none", filter2Frequency |-> 0,
     distortion |-> 0]

\* The chain as _ensureNodes builds it.
BuiltChain ==
    [crusherWet |-> 0, crusherBits |-> 12, chorusWet |-> 0,
     filterType |-> "lowpass", filterFrequency |-> 20000, filterGain |-> 0,
     filterRolloff |-> -12, filter2Type |-> "highpass", filter2Frequency |-> 20,
     distortion |-> 0]

\* No setter called yet.
NoSet == [op |-> "none", built |-> FALSE, raised |-> FALSE]

Urls == {"a.wav", "b.wav"}
Names == {"", "Kick"}
MicProfiles == {"rca44", "sm57", "re15"}
SynthProfiles == {"moog", "jupiter", "cs80", "fairlight"}
UnknownProfiles == {"bogus"}

\* new SamplerVoice(id, acm); voice.connect(this.output)
NewPadVoice(id) ==
    [id |-> id, mode |-> "oneshot", playerTo |-> "outputBus", nodes |-> FALSE,
     busTo |-> SamplerOutput, tracks |-> {}, last |-> NoAssign,
     assignedUrl |-> "null", name |-> "Pad", load |-> "none",
     gritEnabled |-> FALSE, micProfile |-> "none", synthProfile |-> "none",
     transwaveEnabled |-> FALSE, chain |-> NoChain, builds |-> 0,
     set |-> NoSet]

\* Variant: row 4 defaults to one-shot.
DefaultModeOf_Row4OneShot(padId) ==
    IF padId >= 9 /\ padId <= 12 THEN "toggle"
    ELSE IF (padId >= 5 /\ padId <= 8) \/ (padId >= 17 /\ padId <= 20) THEN "gate"
    ELSE "oneshot"

\* assignSample, step 1: the default mode of the pad's row
DefaultModeOf(padId) ==
    IF padId >= 1 /\ padId <= 4 THEN "oneshot"
    ELSE IF padId >= 5 /\ padId <= 8 THEN "gate"
    ELSE IF padId >= 9 /\ padId <= 12 THEN "toggle"
    ELSE IF padId >= 13 /\ padId <= 16 THEN "gate"
    ELSE IF padId >= 17 /\ padId <= 20 THEN "gate"
    ELSE "oneshot"

\* voice.load(url, name) up to player.load: the url and a non-empty name
\* are stored at once.
VoiceLoad(v, url, name) ==
    [v EXCEPT !.assignedUrl = url,
              !.name = IF name # "" THEN name ELSE @,
              !.load = "pending"]

\* assignSample(padId, url, name) up to its return.
AssignSample(padId, url, name) ==
    /\ UNCHANGED <<coreVars, cast, pcm, cap, dev>>
    /\ LET ready == (padId - 17) \in padv.tracks
           call == [pad |-> padId, rejected |-> padId \notin 1..20,
                    ready |-> ready,
                    before |-> IF padId # padv.id THEN NoBefore
                               ELSE [assignedUrl |-> padv.assignedUrl,
                                     name |-> padv.name, mode |-> padv.mode,
                                     playerTo |-> padv.playerTo,
                                     busTo |-> padv.busTo]]
       IN padv' =
            IF padId # padv.id
            THEN [padv EXCEPT !.last = call]
            ELSE IF padId >= 17 /\ padId <= 20
            THEN VoiceLoad([padv EXCEPT
                      !.mode = DefaultModeOf(padId),
                      !.playerTo = "none",
                      !.busTo = IF ready THEN <<"track", padId - 17>>
                                ELSE SamplerOutput,
                      !.last = call], url, name)
            ELSE VoiceLoad([padv EXCEPT !.mode = DefaultModeOf(padId),
                              !.busTo = SamplerOutput,
                              !.last = call], url, name)

\* player.load settles: the promise assignSample returned resolves or
\* rejects; neither handler changes the voice.
LoadSettles(ok) ==
    /\ UNCHANGED <<coreVars, cast, pcm, cap, dev>>
    /\ padv.load = "pending"
    /\ padv' = [padv EXCEPT !.load = IF ok THEN "loaded" ELSE "failed"]

\* setPadMode(pad, mode) on the voice followed.
SetPadMode(mode) ==
    /\ UNCHANGED <<coreVars, cast, pcm, cap, dev>>
    /\ padv' = [padv EXCEPT !.mode = mode, !.last = NoAssign]

\* _ensureNodes: the first call builds the vintage chain and connects the
\* player through it.
EnsureNodes(v) ==
    IF v.nodes THEN v
    ELSE [v EXCEPT !.nodes = TRUE, !.playerTo = "chain",
                   !.chain = BuiltChain, !.builds = @ + 1]

\* setGrit(enabled); setTargetAtTime is followed to its target.
SetGrit(enabled) ==
    /\ UNCHANGED <<coreVars, cast, pcm, cap, dev>>
    /\ padv' = [EnsureNodes(padv) EXCEPT
                   !.gritEnabled = enabled,
                   !.chain.crusherWet = IF enabled THEN 10 ELSE 0,
                   !.chain.filterFrequency = IF enabled THEN 12000 ELSE 20000,
                   !.set = [op |-> "setGrit", built |-> padv.nodes,
                            raised |-> FALSE],
                   !.last = NoAssign]

\* setTranswave(enabled, rate): no call to _ensureNodes, and _ensureNodes
\* creates no transwaveLFO, so the first read of this.nodes.transwaveLFO
\* (of null, or its .frequency / .pause of undefined) raises a TypeError.
SetTranswave(enabled) ==
    /\ UNCHANGED <<coreVars, cast, pcm, cap, dev>>
    /\ padv' = [padv EXCEPT
                   !.transwaveEnabled = enabled,
                   !.set = [op |-> "setTranswave", built |-> padv.nodes,
                            raised |-> TRUE],
                   !.last = NoAssign]

\* setMicProfile(profile): the filter is reset, then the profile applied.
SetMicProfile(profile) ==
    /\ UNCHANGED <<coreVars, cast, pcm, cap, dev>>
    /\ LET v == [EnsureNodes(padv) EXCEPT
                    !.micProfile = profile,
                    !.chain.filterType = "lowpass",
                    !.chain.filterFrequency = 20000,
                    !.chain.filterGain = 0,
                    !.set = [op |-> "setMicProfile", built |-> padv.nodes,
                             raised |-> FALSE],
                    !.last = NoAssign]
       IN padv' =
            CASE profile = "rca44" ->
                   [v EXCEPT !.chain.filterFrequency = 12000]
              [] profile = "sm57" ->
                   [v EXCEPT !.chain.filterType = "peaking",
                             !.chain.filterFrequency = 4000,
                             !.chain.filterGain = 4]
              [] profile = "re15" ->
                   [v EXCEPT !.chain.filterFrequency = 15000]
              [] OTHER -> v

\* setSynthProfile(profile): the chain is reset, then the profile applied.
SetSynthProfile(profile) ==
    /\ UNCHANGED <<coreVars, cast, pcm, cap, dev>>
    /\ LET v == [EnsureNodes(padv) EXCEPT
                    !.synthProfile = profile,
                    !.chain.crusherWet = 0,
                    !.chain.chorusWet = 0,
                    !.chain.distortion = 0,
                    !.chain.filterType = "lowpass",
                    !.chain.filterRolloff = -12,
                    !.chain.filter2Type = "highpass",
                    !.chain.filter2Frequency = 20,
                    !.set = [op |-> "setSynthProfile", built |-> padv.nodes,
                             raised |-> FALSE],
                    !.last = NoAssign]
       IN padv' =
            CASE profile = "moog" ->
                   [v EXCEPT !.chain.filterRolloff = -24,
                             !.chain.filterFrequency = 2000,
                             !.chain.distortion = 4]
              [] profile = "jupiter" ->
                   [v EXCEPT !.chain.filterRolloff = -24,
                             !.chain.chorusWet = 6]
              [] profile = "cs80" ->
                   [v EXCEPT !.chain.filterFrequency = 5000,
                             !.chain.filter2Frequency = 400]
              [] profile = "fairlight" ->
                   [v EXCEPT !.chain.crusherBits = 8,
                             !.chain.crusherWet = 10,
                             !.chain.filterFrequency = 8000]
              [] OTHER -> v

\* One call of a per-voice character setter.
CharacterSetter ==
    \/ \E enabled \in BOOLEAN : SetGrit(enabled)
    \/ \E enabled \in BOOLEAN : SetTranswave(enabled)
    \/ \E profile \in MicProfiles \cup UnknownProfiles : SetMicProfile(profile)
    \/ \E profile \in SynthProfiles \cup UnknownProfiles :
          SetSynthProfile(profile)

\* window.tracks[trackIndex].trackAudio comes to exist.
TrackInitialized(trackIndex) ==
    /\ UNCHANGED <<coreVars, cast, pcm, cap, dev>>
    /\ trackIndex \notin padv.tracks
    /\ padv' = [padv EXCEPT !.tracks = @ \cup {trackIndex}, !.last = NoAssign]

\* Loads followed to their end on one voice.
NextLoad ==
    \/ \E url \in Urls, name \in Names : AssignSample(padv.id, url, name)
    \/ \E ok \in BOOLEAN : LoadSettles(ok)
    \/ \E mode \in Modes : SetPadMode(mode)
    \/ TrackInitialized(0)

NextPads ==
    \/ \E padId \in 0..21 : AssignSample(padId, "a.wav", "")
    \/ \E mode \in Modes : SetPadMode(mode)
    \/ SetGrit(TRUE)
    \/ \E trackIndex \in 0..3 : TrackInitialized(trackIndex)

(***************************************************************************)
(* NEGOTIATED CAST SESSION: ToneCastManager.  One startCasting call is in  *)
(* flight at a time (startAudioPiping awaits it); stopCasting and the      *)
(* signalling handler can run at each of its awaits.                       *)
(***************************************************************************)

\* The ToneCastManager as constructed.  peerConnection 0 is null; pcs[i]
\* is the state of the i-th RTCPeerConnection created; pc is the position
\* of the startCasting call; offers counts the offers put on the signalling
\* channel, offersAtStop what that count was when stopCasting was first
\* called after the last startCasting (-1: not called); sent counts the
\* offers of the last startCasting call, lastCount is status.clientCount of
\* its last status query (-1: none made).  answering is the connection a
\* handleSignal call is applying an answer to (0: none), timers the 1000 ms
\* follow-ups set and not yet run, timersSet how many were set so far,
\* deferred what the last follow-up found and did.
NewCast ==
    [peerConnection |-> 0, pcs |-> <<>>, unlistenFn |-> FALSE,
     statsInterval |-> FALSE, pc |-> "idle", waited |-> 0, offers |-> 0,
     offersAtStop |-> -1, sent |-> 0, lastCount |-> -1,
     answering |-> 0, timers |-> 0, timersSet |-> 0,
     deferred |-> [ran |-> FALSE, live |-> FALSE, raised |-> FALSE]]

\* initialize(): subscribes to the signalling events.
Initialize ==
    /\ UNCHANGED <<coreVars, padv, pcm, cap, dev>>
    /\ cast' = [cast EXCEPT !.unlistenFn = TRUE]

\* startCasting(deviceId) up to its first await (createOffer): without a
\* cast stream it returns, otherwise it creates a peer connection, which
\* replaces the reference to an earlier one without closing it.
StartCasting(haveStream) ==
    /\ UNCHANGED <<coreVars, padv, pcm, cap, dev>>
    /\ cast.pc \in {"idle", "done"}
    /\ Len(cast.pcs) < MaxSessions
    /\ cast' = IF ~haveStream
               THEN [cast EXCEPT !.pc = "done", !.offersAtStop = -1,
                                 !.sent = 0, !.lastCount = -1]
               ELSE [cast EXCEPT !.peerConnection = Len(cast.pcs) + 1,
                                 !.pcs = Append(@, "open"),
                                 !.pc = "createOffer",
                                 !.waited = 0,
                                 !.offersAtStop = -1,
                                 !.sent = 0, !.lastCount = -1]

\* createOffer settles: on a connection closed meanwhile it fails and the
\* catch ends the call; otherwise setLocalDescription is awaited.
OfferCreated ==
    /\ UNCHANGED <<coreVars, padv, pcm, cap, dev>>
    /\ cast.pc = "createOffer"
    /\ cast' = IF cast.peerConnection = 0
               THEN [cast EXCEPT !.pc = "done"]
               ELSE [cast EXCEPT !.pc = "setLocalDescription"]

\* setLocalDescription settles: on a connection closed meanwhile it fails
\* and the catch ends the call; otherwise the polling loop is entered.
LocalDescriptionSet ==
    /\ UNCHANGED <<coreVars, padv, pcm, cap, dev>>
    /\ cast.pc = "setLocalDescription"
    /\ cast' = IF cast.peerConnection = 0
               THEN [cast EXCEPT !.pc = "done"]
               ELSE [cast EXCEPT !.pc = "polling", !.waited = 0]

\* waitForClient that gives up one poll early
Poll_OnePollShort(clientCount) ==
    /\ UNCHANGED <<coreVars, padv, pcm, cap, dev>>
    /\ cast.pc = "polling"
    /\ cast' = IF clientCount > 0
               THEN [cast EXCEPT !.pc = "done", !.offers = @ + 1,
                                 !.sent = @ + 1, !.lastCount = clientCount]
               ELSE IF cast.waited + 2 * PollInterval < MaxWait
               THEN [cast EXCEPT !.waited = @ + PollInterval,
                                 !.lastCount = clientCount]
               ELSE [cast EXCEPT !.waited = @ + PollInterval,
                                 !.pc = "done", !.offers = @ + 1,
                                 !.sent = @ + 1, !.lastCount = clientCount]

\* One round of waitForClient and what follows the loop: with a client
\* connected, or with maxWait used up, the offer is mangled from the local
\* `offer` and sent through _sendSignal; neither the loop nor the send
\* looks at this.peerConnection.
Poll(clientCount) ==
    /\ UNCHANGED <<coreVars, padv, pcm, cap, dev>>
    /\ cast.pc = "polling"
    /\ cast' = IF clientCount > 0
               THEN [cast EXCEPT !.pc = "done", !.offers = @ + 1,
                                 !.sent = @ + 1, !.lastCount = clientCount]
               ELSE IF cast.waited + PollInterval < MaxWait
               THEN [cast EXCEPT !.waited = @ + PollInterval,
                                 !.lastCount = clientCount]
               ELSE [cast EXCEPT !.waited = @ + PollInterval,
                                 !.pc = "done", !.offers = @ + 1,
                                 !.sent = @ + 1, !.lastCount = clientCount]

\* handleSignal({type: 'answer'}) up to `await setRemoteDescription`:
\* ignored without a peer connection.
HandleAnswer ==
    /\ UNCHANGED <<coreVars, padv, pcm, cap, dev>>
    /\ cast.unlistenFn
    /\ cast.answering = 0
    /\ cast' = IF cast.peerConnection = 0 THEN cast
               ELSE [cast EXCEPT !.answering = cast.peerConnection]

\* setRemoteDescription settles: applied, the follow-up is set for 1000 ms
\* later; a rejection (always so on a closed connection) is caught and
\* logged.
RemoteDescriptionSet(ok) ==
    /\ UNCHANGED <<coreVars, padv, pcm, cap, dev>>
    /\ cast.answering # 0
    /\ cast.timersSet < MaxTimers
    /\ cast' = IF ok /\ cast.pcs[cast.answering] = "open"
               THEN [cast EXCEPT !.answering = 0, !.timers = @ + 1,
                                 !.timersSet = @ + 1]
               ELSE [cast EXCEPT !.answering = 0]

\* The 1000 ms follow-up: _optimizeCodecs, _ensureTracksActive,
\* _startStatsMonitoring.  _optimizeCodecs calls
\* this.peerConnection.getSenders() outright, which throws on null and ends
\* the callback.
DeferredActions ==
    /\ UNCHANGED <<coreVars, padv, pcm, cap, dev>>
    /\ cast.timers > 0
    /\ cast' = IF cast.peerConnection = 0
               THEN [cast EXCEPT !.timers = @ - 1,
                                 !.deferred = [ran |-> TRUE, live |-> FALSE,
                                               raised |-> TRUE]]
               ELSE [cast EXCEPT !.timers = @ - 1,
                                 !.statsInterval = TRUE,
                                 !.deferred = [ran |-> TRUE, live |-> TRUE,
                                               raised |-> FALSE]]

\* stopCasting(): clears the interval, closes and forgets the peer
\* connection, unsubscribes.
StopCasting ==
    /\ UNCHANGED <<coreVars, padv, pcm, cap, dev>>
    /\ cast' = [cast EXCEPT
                  !.statsInterval = FALSE,
                  !.pcs = IF cast.peerConnection = 0 THEN @
                          ELSE [@ EXCEPT ![cast.peerConnection] = "closed"],
                  !.peerConnection = 0,
                  !.unlistenFn = FALSE,
                  !.offersAtStop = IF @ = -1 THEN cast.offers ELSE @]

NextCast ==
    \/ Initialize
    \/ \E haveStream \in BOOLEAN : StartCasting(haveStream)
    \/ OfferCreated
    \/ LocalDescriptionSet
    \/ \E clientCount \in 0..1 : Poll(clientCount)
    \/ HandleAnswer
    \/ \E ok \in BOOLEAN : RemoteDescriptionSet(ok)
    \/ DeferredActions
    \/ StopCasting

(***************************************************************************)
(* BATCHED PCM: the capture processor's batches packed for the wire.  A    *)
(* sample is k / SampleDen; a batch of one frame is followed.              *)
(***************************************************************************)

\* window._castMode = 'webrtc', both batch buffers zeroed; left and right
\* are the samples of the batch the capture processor posts.
\* audioPipeActive = false; setups counts the startAudioPiping calls past
\* their guard and not yet returned, nodes lists the cast worklet nodes
\* built so far, lastCall is the last startAudioPiping call and lastSetup how
\* the last call past the guard ended; stopped says that stopAudioPiping
\* was called and startAudioPiping not since; lastFrame tells of the last
\* frame of the master mix how often it was pushed to the bridge.
NewPcm ==
    [castMode |-> "webrtc", left |-> 0, right |-> 0, packedAs |-> "none",
     pcm24Buffer |-> <<0, 0, 0, 0, 0, 0>>, floatBatchBuffer |-> <<0, 0>>,
     audioPipeActive |-> FALSE, setups |-> 0, nodes |-> <<>>,
     pipeCalls |-> 0,
     lastCall |-> [mode |-> "none", forceRestart |-> FALSE, skipped |-> FALSE],
     lastSetup |-> "none", stopped |-> FALSE,
     lastFrame |-> [captured |-> FALSE, pushes |-> 0, stopped |-> FALSE]]

\* leftData[i] * 0.95 clamped to [-1, 1], as a numerator over
\* SampleDen * HeadroomDen.
Attenuated(k) ==
    LET l == k * HeadroomNum
        one == SampleDen * HeadroomDen
    IN  IF l > one THEN one ELSE IF l < -one THEN -one ELSE l

\* Math.floor(l * 8388607)
Quantized(k) == (Attenuated(k) * Scale24) \div (SampleDen * HeadroomDen)

\* l_int & 0xFF, (l_int >> 8) & 0xFF, (l_int >> 16) & 0xFF
Pack24(n) == <<n % 256, (n \div 256) % 256, (n \div 65536) % 256>>

\* The reading of three bytes as a 24-bit signed little-endian integer.
Unpack24(b) ==
    LET u == b[1] + 256 * b[2] + 65536 * b[3]
    IN  IF u >= 8388608 THEN u - 16777216 ELSE u

\* startAudioPiping(mode): window._castMode = mode
SetCastMode(mode) ==
    /\ UNCHANGED <<coreVars, padv, cast, cap, dev>>
    /\ pcm' = [pcm EXCEPT !.castMode = mode]

\* castWorkletNode.port.onmessage for the batch posted.
OnMessage ==
    /\ UNCHANGED <<coreVars, padv, cast, cap, dev>>
    /\ LET l == pcm.left
           r == pcm.right
       IN  pcm' = IF pcm.castMode = "hls"
                  THEN [pcm EXCEPT !.packedAs = "float",
                           !.floatBatchBuffer = <<Attenuated(l), Attenuated(r)>>]
                  ELSE [pcm EXCEPT !.packedAs = "pcm24",
                           !.pcm24Buffer = Pack24(Quantized(l)) \o Pack24(Quantized(r))]

\* How a startAudioPiping call past its guard can end.  "connected": the
\* worklet node is built and fed; "unconnected": built, with neither a cast
\* stream nor a limiter output to feed it; "noWorklet": the context has no
\* audioWorklet; "moduleFails", "nodeFails", "connectFails": addModule, the
\* node constructor or the source connection throws inside setupAudioPipe;
\* "startRejects": Tone.start() rejects; "contextThrows": reading the native
\* context throws.
SetupOutcomes ==
    {"connected", "unconnected", "noWorklet", "moduleFails", "nodeFails",
     "connectFails", "startRejects", "contextThrows"}

\* startAudioPiping that sets up whatever the state
StartAudioPiping_AlwaysRestarts(mode, forceRestart) ==
    /\ UNCHANGED <<coreVars, padv, cast, cap, dev>>
    /\ pcm.pipeCalls < MaxPipeCalls
    /\ pcm' = [pcm EXCEPT !.pipeCalls = @ + 1,
                          !.audioPipeActive = TRUE,
                          !.castMode = mode,
                          !.setups = @ + 1,
                          !.lastCall = [mode |-> mode,
                                        forceRestart |-> forceRestart,
                                        skipped |-> FALSE]]

\* startAudioPiping(mode, forceRestart), up to its first await: an active
\* pipe without forceRestart ends the call before anything is written.
StartAudioPiping(mode, forceRestart) ==
    /\ UNCHANGED <<coreVars, padv, cast, cap, dev>>
    /\ pcm.pipeCalls < MaxPipeCalls
    /\ pcm' = IF pcm.audioPipeActive /\ ~forceRestart
              THEN [pcm EXCEPT !.pipeCalls = @ + 1, !.stopped = FALSE,
                               !.lastCall = [mode |-> mode,
                                             forceRestart |-> forceRestart,
                                             skipped |-> TRUE]]
              ELSE [pcm EXCEPT !.pipeCalls = @ + 1, !.stopped = FALSE,
                               !.audioPipeActive = TRUE,
                               !.castMode = mode,
                               !.setups = @ + 1,
                               !.lastCall = [mode |-> mode,
                                             forceRestart |-> forceRestart,
                                             skipped |-> FALSE]]

\* The rest of a startAudioPiping call.  setupAudioPipe catches what its own
\* steps throw and returns; only an error outside it reaches the catch that
\* clears audioPipeActive, and a rejection of Tone.start() reaches none.
SetupSettles(outcome) ==
    /\ UNCHANGED <<coreVars, padv, cast, cap, dev>>
    /\ pcm.setups > 0
    /\ pcm' = [pcm EXCEPT
                  !.setups = @ - 1,
                  !.lastSetup = outcome,
                  !.nodes = IF outcome = "connected"
                            THEN Append(@, "connected")
                            ELSE IF outcome \in {"unconnected", "connectFails"}
                            THEN Append(@, "unconnected")
                            ELSE @,
                  !.audioPipeActive = IF outcome = "contextThrows"
                                      THEN FALSE ELSE @]

\* window.stopAudioPiping(): audioPipeNode is never assigned, so no node is
\* disconnected.
StopAudioPiping ==
    /\ UNCHANGED <<coreVars, padv, cast, cap, dev>>
    /\ pcm' = [pcm EXCEPT !.audioPipeActive = FALSE, !.stopped = TRUE]

\* The worklet nodes fed by the master mix.
RECURSIVE ConnectedNodes(_)
ConnectedNodes(nodes) ==
    IF nodes = <<>> THEN 0
    ELSE (IF Head(nodes) = "connected" THEN 1 ELSE 0)
             + ConnectedNodes(Tail(nodes))

\* One frame of the master mix: every fed CastProcessor posts it and the
\* onmessage handler of its node pushes it with invoke('push_ws_audio' or
\* 'push_cast_audio'); the handler looks at no flag of the pipeline.
FrameCaptured ==
    /\ UNCHANGED <<coreVars, padv, cast, cap, dev>>
    /\ pcm' = [pcm EXCEPT !.lastFrame = [captured |-> TRUE,
                                         pushes |-> ConnectedNodes(pcm.nodes),
                                         stopped |-> pcm.stopped]]

NextPcm ==
    \/ \E mode \in {"webrtc", "hls"} : SetCastMode(mode)
    \/ OnMessage

NextPipe ==
    \/ \E mode \in {"webrtc", "hls"}, forceRestart \in BOOLEAN :
           StartAudioPiping(mode, forceRestart)
    \/ \E outcome \in SetupOutcomes : SetupSettles(outcome)
    \/ StopAudioPiping
    \/ FrameCaptured

(***************************************************************************)
(* CAPTURE CONSUMERS: one TrackAudio input and the AudioRouter's two       *)
(* inputs, all asking the shared cache for the same device.  Each call is  *)
(* followed from entry to return, the outcome of every capture request it  *)
(* makes being an input.                                                   *)
(***************************************************************************)

\* The callers whose connectInput calls on the track can overlap.
InputCallers == {"deviceChange", "startRecording"}

\* The wiring of the track input: the sources still connected to their
\* boost gain (sourceOut), the boost gains connected to trackInput
\* (boostOut), the fields inputConnection and inputBoostGain (0 for null),
\* where each caller's connectInput call is, and the calls begun.  Source
\* and boost of the k-th completed call are both numbered k.
NewWire ==
    [pc |-> [c \in InputCallers |-> "idle"], sourceOut |-> {}, boostOut |-> {},
     inputConnection |-> 0, inputBoostGain |-> 0, made |-> 0, begun |-> 0]

\* disconnectInput() on the wiring: only the source and the boost gain the
\* fields name are disconnected.
InputDisconnected(w) ==
    [w EXCEPT !.sourceOut = @ \ {w.inputConnection},
              !.boostOut = @ \ {w.inputBoostGain},
              !.inputConnection = 0,
              !.inputBoostGain = 0]

\* The sources that feed trackInput.
Feeding(w) == w.sourceOut \cap w.boostOut

\* No entry in the cache, no stream opened, no input connected.
\* streams[i].shared: opened by getSharedInputStream; endedBy: what turned
\* stream.active false.  track.last lists the capture attempts of the last
\* connectInput call.
NewCap ==
    [inputStreams |-> 0, streams |-> <<>>,
     track |-> [inputStream |-> 0, raised |-> FALSE, last |-> <<>>],
     wire |-> NewWire,
     router |-> [ch \in {"mic", "bh"} |-> [active |-> FALSE, stream |-> 0]]]

\* getSharedInputStream(deviceId) on the cache and streams of c, getUserMedia
\* answering with outcome; result 0 stands for the call throwing.
SharedInputStream(c, outcome) ==
    IF c.inputStreams # 0 /\ c.streams[c.inputStreams].active
    THEN [inputStreams |-> c.inputStreams, streams |-> c.streams,
          result |-> c.inputStreams]
    ELSE IF outcome = "fail"
    THEN [inputStreams |-> 0, streams |-> c.streams, result |-> 0]
    ELSE LET id == Len(c.streams) + 1
             live == outcome = "stream"
         IN  [inputStreams |-> id,
              streams |-> Append(c.streams,
                  [shared |-> TRUE, active |-> live,
                   endedBy |-> IF live THEN "none" ELSE "hardware"]),
              result |-> id]

\* A capture opened outside the cache, by getUserMedia or Tone.UserMedia.
PrivateStream == [shared |-> FALSE, active |-> TRUE, endedBy |-> "none"]

\* connectInput('mic', deviceId) without the minimal-constraint attempt.
ConnectInput_TwoTiers(o1, o2, o3) ==
    /\ UNCHANGED <<coreVars, padv, cast, pcm, dev>>
    /\ Len(cap.streams) + 2 <= MaxStreams
    /\ LET g == SharedInputStream(cap, o1)
           usable1 == g.result # 0 /\ g.streams[g.result].active
           first == [tier |-> "shared", stream |-> g.result, usable |-> usable1]
           id == Len(g.streams) + 1
       IN  IF usable1
           THEN cap' = [cap EXCEPT !.inputStreams = g.inputStreams,
                                   !.streams = g.streams,
                                   !.track = [inputStream |-> g.result,
                                              raised |-> FALSE,
                                              last |-> <<first>>]]
           ELSE IF o2 = "stream"
           THEN cap' = [cap EXCEPT !.inputStreams = g.inputStreams,
                                   !.streams = Append(g.streams, PrivateStream),
                                   !.track = [inputStream |-> id,
                                              raised |-> FALSE,
                                              last |-> <<first,
                                                  [tier |-> "relaxed", stream |-> id,
                                                   usable |-> TRUE]>>]]
           ELSE cap' = [cap EXCEPT !.inputStreams = g.inputStreams,
                                   !.streams = g.streams,
                                   !.track = [inputStream |-> 0,
                                              raised |-> TRUE,
                                              last |-> <<first,
                                                  [tier |-> "relaxed", stream |-> 0,
                                                   usable |-> FALSE]>>]]

\* connectInput('mic', deviceId): disconnectInput, then the shared stream;
\* if that throws or the stream is not active, getUserMedia with the relaxed
\* constraints; if that throws, getUserMedia with the minimal constraint,
\* whose failure is the call's.  The stream obtained becomes inputStream.
ConnectInput(o1, o2, o3) ==
    /\ UNCHANGED <<coreVars, padv, cast, pcm, dev>>
    /\ Len(cap.streams) + 2 <= MaxStreams
    /\ LET g == SharedInputStream(cap, o1)
           usable1 == g.result # 0 /\ g.streams[g.result].active
           first == [tier |-> "shared", stream |-> g.result, usable |-> usable1]
           id == Len(g.streams) + 1
           second == [tier |-> "relaxed",
                      stream |-> IF o2 = "stream" THEN id ELSE 0,
                      usable |-> o2 = "stream"]
           third == [tier |-> "minimal",
                     stream |-> IF o3 = "stream" THEN id ELSE 0,
                     usable |-> o3 = "stream"]
       IN  IF usable1
           THEN cap' = [cap EXCEPT !.inputStreams = g.inputStreams,
                                   !.streams = g.streams,
                                   !.track = [inputStream |-> g.result,
                                              raised |-> FALSE,
                                              last |-> <<first>>]]
           ELSE IF o2 = "stream"
           THEN cap' = [cap EXCEPT !.inputStreams = g.inputStreams,
                                   !.streams = Append(g.streams, PrivateStream),
                                   !.track = [inputStream |-> id,
                                              raised |-> FALSE,
                                              last |-> <<first, second>>]]
           ELSE IF o3 = "stream"
           THEN cap' = [cap EXCEPT !.inputStreams = g.inputStreams,
                                   !.streams = Append(g.streams, PrivateStream),
                                   !.track = [inputStream |-> id,
                                              raised |-> FALSE,
                                              last |-> <<first, second, third>>]]
           ELSE cap' = [cap EXCEPT !.inputStreams = g.inputStreams,
                                   !.streams = g.streams,
                                   !.track = [inputStream |-> 0,
                                              raised |-> TRUE,
                                              last |-> <<first, second, third>>]]

\* disconnectInput(): the reference to the stream is dropped, the stream is
\* not stopped.
DisconnectInput ==
    /\ UNCHANGED <<coreVars, padv, cast, pcm, dev>>
    /\ cap' = [cap EXCEPT !.track = [inputStream |-> 0, raised |-> FALSE,
                                     last |-> <<>>],
                          !.wire = InputDisconnected(@)]

\* connectInput('mic', deviceId) of caller c up to its first await:
\* disconnectInput(), then the wait for the devices or the stream.
ConnectInputBegins(c) ==
    /\ UNCHANGED <<coreVars, padv, cast, pcm, dev>>
    /\ cap.wire.pc[c] = "idle"
    /\ cap.wire.begun < MaxConnects
    /\ cap' = [cap EXCEPT !.wire = [InputDisconnected(@) EXCEPT
                                       !.pc[c] = "awaiting",
                                       !.begun = @ + 1]]

\* The call of caller c goes on once its stream is there: a new source and
\* a new boost gain are connected to trackInput and stored in the fields;
\* nothing is disconnected at this point.  With no stream the call throws.
ConnectInputResumes(c, haveStream) ==
    /\ UNCHANGED <<coreVars, padv, cast, pcm, dev>>
    /\ cap.wire.pc[c] = "awaiting"
    /\ LET id == cap.wire.made + 1
       IN  cap' =
             IF haveStream
             THEN [cap EXCEPT !.wire.pc[c] = "idle",
                              !.wire.sourceOut = @ \cup {id},
                              !.wire.boostOut = @ \cup {id},
                              !.wire.inputConnection = id,
                              !.wire.inputBoostGain = id,
                              !.wire.made = id]
             ELSE [cap EXCEPT !.wire.pc[c] = "idle"]

\* closeMicrophone() / closeLoopback() on c: Tone.UserMedia.close() stops
\* the tracks of the stream the input holds.
Closed(c, ch) ==
    IF ~c.router[ch].active THEN c
    ELSE LET held == c.router[ch].stream
         IN  [c EXCEPT
                !.streams = IF held # 0 /\ @[held].active
                            THEN [@ EXCEPT ![held].active = FALSE,
                                           ![held].endedBy = "router"]
                            ELSE @,
                !.router[ch] = [active |-> FALSE, stream |-> 0]]

\* openMicrophone(deviceId) / openLoopback(deviceId): an open input is
\* closed first; the shared stream is requested and handed to
\* Tone.UserMedia.open, which takes it as its stream ("adopt") or opens a
\* capture of its own ("own"); when the request or open throws, open(deviceId)
\* opens a capture of its own ("own") or throws as well ("fail").
RouterOpen(ch, o1, how) ==
    /\ UNCHANGED <<coreVars, padv, cast, pcm, dev>>
    /\ Len(cap.streams) + 2 <= MaxStreams
    /\ LET c == Closed(cap, ch)
           g == SharedInputStream(c, o1)
           id == Len(g.streams) + 1
       IN  IF how = "adopt" /\ g.result # 0
           THEN cap' = [c EXCEPT !.inputStreams = g.inputStreams,
                                 !.streams = g.streams,
                                 !.router[ch] = [active |-> TRUE,
                                                 stream |-> g.result]]
           ELSE IF how = "fail"
           THEN cap' = [c EXCEPT !.inputStreams = g.inputStreams,
                                 !.streams = g.streams]
           ELSE cap' = [c EXCEPT !.inputStreams = g.inputStreams,
                                 !.streams = Append(g.streams, PrivateStream),
                                 !.router[ch] = [active |-> TRUE, stream |-> id]]

\* closeMicrophone() / closeLoopback()
RouterClose(ch) ==
    /\ UNCHANGED <<coreVars, padv, cast, pcm, dev>>
    /\ cap' = Closed(cap, ch)

\* The hardware ends a capture: stream.active turns false.
CaptureEnds(i) ==
    /\ UNCHANGED <<coreVars, padv, cast, pcm, dev>>
    /\ i \in DOMAIN cap.streams
    /\ cap.streams[i].active
    /\ cap' = [cap EXCEPT !.streams[i].active = FALSE,
                          !.streams[i].endedBy = "hardware"]

\* connectInput calls of two callers, interleaved at their awaits.
NextConnect ==
    \/ \E c \in InputCallers : ConnectInputBegins(c)
    \/ \E c \in InputCallers, haveStream \in BOOLEAN :
          ConnectInputResumes(c, haveStream)
    \/ DisconnectInput

NextInput ==
    \/ \E o1 \in {"stream", "inactive", "fail"}, o2, o3 \in {"stream", "fail"} :
          ConnectInput(o1, o2, o3)
    \/ DisconnectInput
    \/ \E ch \in {"mic", "bh"}, o1 \in {"stream", "inactive", "fail"},
          how \in {"adopt", "own", "fail"} : RouterOpen(ch, o1, how)
    \/ \E ch \in {"mic", "bh"} : RouterClose(ch)
    \/ \E i \in 1..MaxStreams : CaptureEnds(i)

(***************************************************************************)
(* DEVICES: DeviceManager.enumerate and its label heuristics.  A label is  *)
(* the sequence of its characters.                                         *)
(***************************************************************************)

\* this._devices = [], this._permissionGranted = false; platform: what
\* enumerateDevices reports; last: the call made last and what it gave its
\* caller.
NewDev ==
    [platform |-> <<>>, devices |-> <<>>, permissionGranted |-> FALSE,
     last |-> [call |-> "none", raised |-> FALSE, failed |-> FALSE,
              result |-> <<>>, raw |-> <<>>]]

\* String.prototype.toLowerCase, on the letters the labels are written in.
ToLowerCase(label) ==
    LET lower == [A |-> "a", B |-> "b", C |-> "c", D |-> "d", E |-> "e", F |-> "f",
     G |-> "g", H |-> "h", I |-> "i", J |-> "j", K |-> "k", L |-> "l",
     M |-> "m", N |-> "n", O |-> "o", P |-> "p", Q |-> "q", R |-> "r",
     S |-> "s", T |-> "t", U |-> "u", V |-> "v", W |-> "w", X |-> "x",
     Y |-> "y", Z |-> "z"]
    IN  [i \in DOMAIN label |->
            IF label[i] \in DOMAIN lower THEN lower[label[i]] ELSE label[i]]

\* String.prototype.includes
Includes(l, sub) ==
    \E i \in 0..(Len(l) - Len(sub)) : SubSeq(l, i + 1, i + Len(sub)) = sub

\* _isBlackHole(label) that does not know the spelling in two words
IsBlackHole_OneWord(label) ==
    LET l == ToLowerCase(label)
    IN  Includes(l, <<"b", "l", "a", "c", "k", "h", "o", "l", "e">>)

\* _isBlackHole(label)
IsBlackHole(label) ==
    LET l == ToLowerCase(label)
    IN  \/ Includes(l, <<"b", "l", "a", "c", "k", "h", "o", "l", "e">>)
        \/ Includes(l, <<"b", "l", "a", "c", "k", " ", "h", "o", "l", "e">>)

\* _isVirtualCable(label)
IsVirtualCable(label) ==
    LET l == ToLowerCase(label)
    IN  \/ Includes(l, <<"v", "b", "-", "a", "u", "d", "i", "o">>)
        \/ Includes(l, <<"v", "i", "r", "t", "u", "a", "l", " ", "a", "u", "d", "i", "o", " ", "c", "a", "b", "l", "e">>)
        \/ Includes(l, <<"v", "a", "c">>)
        \/ Includes(l, <<"c", "a", "b", "l", "e", " ", "o", "u", "t", "p", "u", "t">>)
        \/ Includes(l, <<"j", "a", "c", "k">>)
        \/ Includes(l, <<"p", "i", "p", "e", "w", "i", "r", "e">>)
        \/ Includes(l, <<"s", "o", "u", "n", "d", "f", "l", "o", "w", "e", "r">>)

\* The entry enumerate() builds for the raw device d.
DeviceEntry(d) ==
    [deviceId |-> d.deviceId,
     label |-> IF d.label # <<>> THEN d.label
               ELSE <<"U", "n", "k", "n", "o", "w", "n", " ", "D", "e", "v", "i", "c", "e", " ", "(">>
                    \o SubSeq(d.deviceId, 1, Min(5, Len(d.deviceId)))
                    \o <<".", ".", ".", ")">>,
     isBlackHole |-> IsBlackHole(d.label),
     isVirtualCable |-> IsVirtualCable(d.label),
     isMicrophone |-> ~IsBlackHole(d.label) /\ ~IsVirtualCable(d.label)]

\* raw.filter(d => d.kind === 'audioinput').map(...)
RECURSIVE AudioInputs(_)
AudioInputs(raw) ==
    IF raw = <<>> THEN <<>>
    ELSE (IF Head(raw).kind = "audioinput" THEN <<DeviceEntry(Head(raw))>>
          ELSE <<>>) \o AudioInputs(Tail(raw))

\* requestPermission(): true when the capture is granted, else false.
RequestPermission(granted) ==
    /\ UNCHANGED <<coreVars, padv, cast, pcm, cap>>
    /\ dev' = [dev EXCEPT
                 !.permissionGranted = @ \/ granted,
                 !.last = [call |-> "requestPermission", raised |-> FALSE,
                           failed |-> ~granted, result |-> <<>>,
                           raw |-> <<>>]]

\* enumerate() whose catch rethrows
Enumerate_Rethrow(fails) ==
    /\ UNCHANGED <<coreVars, padv, cast, pcm, cap>>
    /\ LET raw == dev.platform
       IN  dev' = IF fails
                  THEN [dev EXCEPT !.last = [call |-> "enumerate",
                                             raised |-> TRUE, failed |-> TRUE,
                                             result |-> <<>>, raw |-> raw]]
                  ELSE [dev EXCEPT !.devices = AudioInputs(raw),
                                   !.last = [call |-> "enumerate",
                                             raised |-> FALSE, failed |-> FALSE,
                                             result |-> AudioInputs(raw),
                                             raw |-> raw]]

\* enumerate(): when enumerateDevices rejects (fails) the catch returns [],
\* leaving this._devices; otherwise this._devices becomes the mapped
\* audio inputs and is returned.
Enumerate(fails) ==
    /\ UNCHANGED <<coreVars, padv, cast, pcm, cap>>
    /\ LET raw == dev.platform
       IN  dev' = IF fails
                  THEN [dev EXCEPT !.last = [call |-> "enumerate",
                                             raised |-> FALSE, failed |-> TRUE,
                                             result |-> <<>>, raw |-> raw]]
                  ELSE [dev EXCEPT !.devices = AudioInputs(raw),
                                   !.last = [call |-> "enumerate",
                                             raised |-> FALSE, failed |-> FALSE,
                                             result |-> AudioInputs(raw),
                                             raw |-> raw]]

\* The device lists the platform can report: up to MaxDevices devices
\* with the labels followed, the i-th with the id "d<i>".
RawDevices ==
    LET labels ==
        {<<>>,
         <<"B", "l", "a", "c", "k", "H", "o", "l", "e", " ", "2", "c", "h">>,
         <<"B", "l", "a", "c", "k", " ", "H", "o", "l", "e", " ", "1", "6", "c", "h">>,
         <<"M", "a", "c", "B", "o", "o", "k", " ", "P", "r", "o", " ", "M", "i", "c", "r", "o", "p", "h", "o", "n", "e">>,
         <<"C", "A", "B", "L", "E", " ", "O", "u", "t", "p", "u", "t", " ", "(", "V", "B", "-", "A", "u", "d", "i", "o", ")">>,
         <<"J", "A", "C", "K", " ", "s", "i", "n", "k">>,
         <<"b", "l", "a", "c", "k", "o", "u", "t", " ", "m", "i", "c">>}
        one == [kind : {"audioinput", "audiooutput"}, label : labels]
        digits == <<"1", "2", "3", "4", "5", "6", "7", "8", "9">>
    IN  UNION {{[i \in 1..n |-> [kind |-> f[i].kind, label |-> f[i].label,
                                 deviceId |-> <<"d", digits[i]>>]] :
                    f \in [1..n -> one]} : n \in 0..MaxDevices}

NextDevices ==
    \/ \E granted \in BOOLEAN : RequestPermission(granted)
    \/ \E fails \in BOOLEAN : Enumerate(fails)

\* The parts modelled with one record each, as constructed.
(***************************************************************************)
(* MASTER VOLUME: AudioContextManager.setMasterVolume, in whole dB.        *)
(***************************************************************************)

\* constructor: this.masterVolume = null.  last is the last setMasterVolume
\* call: its argument, whether the master graph existed, whether it raised.
NewMaster ==
    [masterVolume |-> [built |-> FALSE, value |-> 0],
     last |-> [called |-> FALSE, dbValue |-> 0, built |-> FALSE,
               raised |-> FALSE]]

Max(a, b) == IF a >= b THEN a ELSE b

\* init(): this.masterVolume = new Tone.Volume(0)
InitMaster ==
    /\ UNCHANGED nonNodeVars
    /\ UNCHANGED worklet
    /\ ~master.masterVolume.built
    /\ master' = [NewMaster EXCEPT !.masterVolume.built = TRUE]

\* setMasterVolume that hands the argument on as it is
SetMasterVolume_NoClamp(dbValue) ==
    /\ UNCHANGED nonNodeVars
    /\ UNCHANGED worklet
    /\ master' =
         [masterVolume |->
              IF master.masterVolume.built
              THEN [master.masterVolume EXCEPT !.value = dbValue]
              ELSE master.masterVolume,
          last |-> [called |-> TRUE, dbValue |-> dbValue,
                    built |-> master.masterVolume.built, raised |-> FALSE]]

\* setMasterVolume(dbValue): without a master volume node nothing happens.
SetMasterVolume(dbValue) ==
    /\ UNCHANGED nonNodeVars
    /\ UNCHANGED worklet
    /\ master' =
         [masterVolume |->
              IF master.masterVolume.built
              THEN [master.masterVolume EXCEPT
                        !.value = Max(-80, Min(20, dbValue))]
              ELSE master.masterVolume,
          last |-> [called |-> TRUE, dbValue |-> dbValue,
                    built |-> master.masterVolume.built, raised |-> FALSE]]

NextMaster ==
    \/ InitMaster
    \/ \E dbValue \in -MaxDb..MaxDb : SetMasterVolume(dbValue)

(***************************************************************************)
(* CAPTURE PROCESSORS: RecorderProcessor.process and CastProcessor.process, *)
(* sample by sample.  Input sample number n (from 0) carries n + 1 on the  *)
(* left and n + 101 on the right channel; a buffer starts filled with 0.   *)
(* The buffers are RecFrame and CastFrame long.  The peak report of the    *)
(* RecorderProcessor carries no samples and is left out.                   *)
(***************************************************************************)

LeftSample(n) == n + 1
RightSample(n) == n + 101

\* new RecorderProcessor({processorOptions: {latencySamples}}); fed counts
\* the input samples read so far, posted lists the 'data' messages.
NewRecorderProcessor(latencySamples) ==
    [bufferL |-> [j \in 1..RecFrame |-> 0],
     bufferR |-> [j \in 1..RecFrame |-> 0],
     index |-> 0, samplesToSkip |-> latencySamples, skippedSamples |-> 0,
     fed |-> 0, posted |-> <<>>]

\* new CastProcessor()
NewCastProcessor ==
    [leftBuffer |-> [j \in 1..CastFrame |-> 0],
     rightBuffer |-> [j \in 1..CastFrame |-> 0],
     bufferIndex |-> 0, fed |-> 0, posted |-> <<>>]

NewWorklet ==
    [recorder |-> NewRecorderProcessor(0), cast |-> NewCastProcessor]

\* One pass of the loop that never skips
RecorderSample_NoSkip(p, stereo) ==
    LET valL == LeftSample(p.fed)
        valR == IF stereo THEN RightSample(p.fed) ELSE valL
        bufferL == [p.bufferL EXCEPT ![p.index + 1] = valL]
        bufferR == [p.bufferR EXCEPT ![p.index + 1] = valR]
        index == p.index + 1
    IN  IF index >= RecFrame
        THEN [p EXCEPT !.bufferL = bufferL, !.bufferR = bufferR,
                       !.index = 0, !.fed = @ + 1,
                       !.posted = Append(@, [left |-> bufferL,
                                             right |-> bufferR])]
        ELSE [p EXCEPT !.bufferL = bufferL, !.bufferR = bufferR,
                       !.index = index, !.fed = @ + 1]

\* One pass of the loop of RecorderProcessor.process over the next input
\* sample; rightIn is leftIn for a mono input.
RecorderSample(p, stereo) ==
    IF p.skippedSamples < p.samplesToSkip
    THEN [p EXCEPT !.skippedSamples = @ + 1, !.fed = @ + 1]
    ELSE LET valL == LeftSample(p.fed)
             valR == IF stereo THEN RightSample(p.fed) ELSE valL
             bufferL == [p.bufferL EXCEPT ![p.index + 1] = valL]
             bufferR == [p.bufferR EXCEPT ![p.index + 1] = valR]
             index == p.index + 1
         IN  IF index >= RecFrame
             THEN [p EXCEPT !.bufferL = bufferL, !.bufferR = bufferR,
                            !.index = 0, !.fed = @ + 1,
                            !.posted = Append(@, [left |-> bufferL,
                                                  right |-> bufferR])]
             ELSE [p EXCEPT !.bufferL = bufferL, !.bufferR = bufferR,
                            !.index = index, !.fed = @ + 1]

\* for (let i = 0; i < leftIn.length; i++) of RecorderProcessor.process
RECURSIVE RecorderLoop(_, _, _)
RecorderLoop(p, length, stereo) ==
    IF length = 0 THEN p
    ELSE RecorderLoop(RecorderSample(p, stereo), length - 1, stereo)

\* One pass of the loop that posts before the last slot is written
CastSample_PostsEarly(p, stereo) ==
    LET leftBuffer == [p.leftBuffer EXCEPT ![p.bufferIndex + 1] = LeftSample(p.fed)]
        rightBuffer == [p.rightBuffer EXCEPT ![p.bufferIndex + 1] =
                            IF stereo THEN RightSample(p.fed)
                            ELSE LeftSample(p.fed)]
        bufferIndex == p.bufferIndex + 1
    IN  IF bufferIndex >= CastFrame - 1
        THEN [p EXCEPT !.leftBuffer = leftBuffer, !.rightBuffer = rightBuffer,
                       !.bufferIndex = 0, !.fed = @ + 1,
                       !.posted = Append(@, [left |-> leftBuffer,
                                             right |-> rightBuffer])]
        ELSE [p EXCEPT !.leftBuffer = leftBuffer, !.rightBuffer = rightBuffer,
                       !.bufferIndex = bufferIndex, !.fed = @ + 1]

\* One pass of the loop of CastProcessor.process; rightInput is
\* input[1] || input[0].
CastSample(p, stereo) ==
    LET leftBuffer == [p.leftBuffer EXCEPT ![p.bufferIndex + 1] = LeftSample(p.fed)]
        rightBuffer == [p.rightBuffer EXCEPT ![p.bufferIndex + 1] =
                            IF stereo THEN RightSample(p.fed)
                            ELSE LeftSample(p.fed)]
        bufferIndex == p.bufferIndex + 1
    IN  IF bufferIndex >= CastFrame
        THEN [p EXCEPT !.leftBuffer = leftBuffer, !.rightBuffer = rightBuffer,
                       !.bufferIndex = 0, !.fed = @ + 1,
                       !.posted = Append(@, [left |-> leftBuffer,
                                             right |-> rightBuffer])]
        ELSE [p EXCEPT !.leftBuffer = leftBuffer, !.rightBuffer = rightBuffer,
                       !.bufferIndex = bufferIndex, !.fed = @ + 1]

\* for (let i = 0; i < leftInput.length; i++) of CastProcessor.process
RECURSIVE CastLoop(_, _, _)
CastLoop(p, length, stereo) ==
    IF length = 0 THEN p
    ELSE CastLoop(CastSample(p, stereo), length - 1, stereo)

\* PCMRecorder.start(): new AudioWorkletNode(..., 'recorder-processor', ...)
\* builds a processor with the latency computed.
CreateRecorderNode(latencySamples) ==
    /\ UNCHANGED nonNodeVars
    /\ UNCHANGED master
    /\ worklet' = [worklet EXCEPT
                       !.recorder = NewRecorderProcessor(latencySamples)]

\* RecorderProcessor.process(inputs): inputs[0] has `channels` channels of
\* `length` samples; without a channel the call returns at once.
RecorderProcess(channels, length) ==
    /\ UNCHANGED nonNodeVars
    /\ UNCHANGED master
    /\ worklet.recorder.fed + length <= MaxFed
    /\ worklet' =
         IF channels = 0
         THEN worklet
         ELSE [worklet EXCEPT
                   !.recorder = RecorderLoop(@, length, channels > 1)]

\* CastProcessor.process(inputs)
CastProcess(channels, length) ==
    /\ UNCHANGED nonNodeVars
    /\ UNCHANGED master
    /\ worklet.cast.fed + length <= MaxFed
    /\ worklet' =
         IF channels = 0
         THEN worklet
         ELSE [worklet EXCEPT !.cast = CastLoop(@, length, channels > 1)]

NextRecorderProcessor ==
    \/ \E latencySamples \in 0..MaxLatency : CreateRecorderNode(latencySamples)
    \/ \E channels \in 0..2, length \in 0..MaxQuantum :
           RecorderProcess(channels, length)

NextCastProcessor ==
    \E channels \in 0..2, length \in 0..MaxQuantum :
        CastProcess(channels, length)

IdleAux ==
    /\ padv = NewPadVoice(1)
    /\ cast = NewCast
    /\ pcm = NewPcm
    /\ cap = NewCap
    /\ dev = NewDev
    /\ master = NewMaster
    /\ worklet = NewWorklet

(***************************************************************************)
(* Specifications: one per part, the other parts held as constructed.      *)
(***************************************************************************)

InitSamplerSpec ==
    InitSampler /\ IdleStream /\ IdleRec /\ IdleLfo /\ IdleLoop /\ IdleFx
        /\ IdleAux

SpecSampler == InitSamplerSpec /\ [][NextSampler]_vars

\* Every part as constructed.
Constructed ==
    IdleSampler /\ IdleStream /\ IdleRec /\ IdleLfo /\ IdleLoop /\ IdleFx
        /\ IdleAux

SpecStream == Constructed /\ [][NextStream]_vars

InitRecSpec ==
    IdleSampler /\ IdleStream /\ InitRec /\ IdleLfo /\ IdleLoop /\ IdleFx
        /\ IdleAux

SpecRec == InitRecSpec /\ [][NextRec]_vars

SpecLfo == Constructed /\ [][NextLfo]_vars

SpecLoop == Constructed /\ [][NextLoop]_vars

SpecFx == Constructed /\ [][NextFx]_vars

\* LFO bindings of an effect control while the effect slots change.
NextSlotLfo ==
    \/ InitManager
    \/ \E p \in {"slot0.wet", "bogus"}, i \in {1, 2} : ConnectLFO(p, <<0, 1>>, i)
    \/ \E p \in {"slot0.wet", "bogus"} : DisconnectLFO(p)
    \/ \E s \in Slots : SetEffect(s, TRUE)
    \/ \E a, b \in Slots : SwapEffects(a, b)
    \/ \E s \in Slots : TransferAuditionToSlot(s)
    \/ StartAudition

SpecSlotLfo == Constructed /\ [][NextSlotLfo]_vars

\* Every core part as constructed.
IdleCore ==
    /\ IdleSampler /\ IdleStream /\ IdleRec /\ IdleLfo /\ IdleLoop /\ IdleFx
    /\ master = NewMaster
    /\ worklet = NewWorklet

InitPads ==
    /\ IdleCore
    /\ padv \in {NewPadVoice(id) : id \in 1..20}
    /\ cast = NewCast /\ pcm = NewPcm /\ cap = NewCap /\ dev = NewDev

SpecPads == InitPads /\ [][NextPads]_vars

\* A pad of the first or of the fifth row and its loads.
InitLoad ==
    /\ IdleCore
    /\ padv \in {NewPadVoice(id) : id \in {1, 17}}
    /\ cast = NewCast /\ pcm = NewPcm /\ cap = NewCap /\ dev = NewDev

SpecLoad == InitLoad /\ [][NextLoad]_vars

\* One voice and its character setters.
InitVoice ==
    /\ IdleCore
    /\ padv = NewPadVoice(1)
    /\ cast = NewCast /\ pcm = NewPcm /\ cap = NewCap /\ dev = NewDev

SpecVoice == InitVoice /\ [][CharacterSetter]_vars

SpecCast == Constructed /\ [][NextCast]_vars

\* The promises startCasting awaits settle and its timers fire.
SpecCastLive ==
    /\ Constructed /\ [][NextCast]_vars
    /\ WF_vars(OfferCreated)
    /\ WF_vars(LocalDescriptionSet)
    /\ WF_vars(\E clientCount \in 0..1 : Poll(clientCount))

\* The capture processor posts any batch of samples up to just outside
\* [-1, 1].
InitPcm ==
    /\ IdleCore
    /\ padv = NewPadVoice(1) /\ cast = NewCast /\ cap = NewCap /\ dev = NewDev
    /\ pcm \in {[NewPcm EXCEPT !.left = l, !.right = r] :
                    l, r \in -(SampleDen + 1)..(SampleDen + 1)}

SpecPcm == InitPcm /\ [][NextPcm]_vars

SpecInput == Constructed /\ [][NextInput]_vars

SpecConnect == Constructed /\ [][NextConnect]_vars

SpecPipe == Constructed /\ [][NextPipe]_vars

SpecMaster == Constructed /\ [][NextMaster]_vars

SpecRecorderProcessor == Constructed /\ [][NextRecorderProcessor]_vars

SpecCastProcessor == Constructed /\ [][NextCastProcessor]_vars

\* The platform reports any of the device lists followed.
InitDevices ==
    /\ IdleCore
    /\ padv = NewPadVoice(1) /\ cast = NewCast /\ pcm = NewPcm /\ cap = NewCap
    /\ dev \in {[NewDev EXCEPT !.platform = raw] : raw \in RawDevices}

SpecDevices == InitDevices /\ [][NextDevices]_vars

(***************************************************************************)
(* Claims about the sampler, checked under SpecSampler.                    *)
(***************************************************************************)

\* C1: at every instant at most one voice of a choke group is sounding
\* (triggerPad on a voice of group G stops every other voice of G before that
\* voice starts), also when the start of a trigger is deferred by the resume
\* of the rendering context.
C1_ChokeGroupExclusive ==
    \A v \in Voices, w \in Voices :
        (v # w /\ voices[v].chokeGroup # NoGroup
               /\ voices[v].chokeGroup = voices[w].chokeGroup)
            => ~(voices[v].sounding /\ voices[w].sounding)

\* C2: on a loaded toggle-mode voice that is stopped, the first of two
\* consecutive triggers starts looped playback and the second one stops it:
\* after the second trigger the player ends up not sounding.
C2_ToggleTriggerTrigger ==
    \A v \in Voices :
        (voices[v].mode = "toggle" /\ lastOp[v] = "T") =>
            /\ trigRun[v] = 1 =>
                   (FinalSounding(voices[v]) /\ voices[v].loop /\ voices[v].isPlaying)
            /\ trigRun[v] = 2 => ~FinalSounding(voices[v])

\* C2 witness: a toggle voice whose second consecutive trigger has run while
\* the playback started by the first one was sounding.
C2_Witness ==
    \E v \in Voices :
        /\ voices[v].mode = "toggle" /\ lastOp[v] = "T" /\ trigRun[v] = 2
        /\ voices[v].sounding
        /\ voices[v].sched = <<"stop">>

\* C3: on a loaded gate-mode voice a release leaves the voice stopped, after
\* one trigger and after two: once release has run, the player ends up not
\* sounding, whatever number of triggers preceded it.
C3_GateReleaseStops ==
    \A v \in Voices :
        (voices[v].mode = "gate" /\ voices[v].loaded /\ lastOp[v] = "R")
            => ~FinalSounding(voices[v])

\* C3 witness: a gate voice released after two triggers in a row, the release
\* having found the player started.
C3_Witness ==
    \E v \in Voices :
        /\ voices[v].mode = "gate" /\ voices[v].loaded
        /\ lastOp[v] = "R" /\ trigRun[v] = 2
        /\ voices[v].sched # <<>>
        /\ voices[v].sched[Len(voices[v].sched)] = "stop"

\* C26: when release() has run on a gate-mode voice while a trigger() of
\* that voice was waiting for the context to resume, the voice does not end
\* up sounding once that trigger has gone on to its end.
C26_ReleaseBeatsPendingTrigger ==
    [][\A v \in Voices :
          (/\ voices[v].mode = "gate" /\ lastOp[v] = "Rp"
           /\ pendingTrig # <<>> /\ Head(pendingTrig) = v
           /\ pendingTrig' = Tail(pendingTrig)
           /\ \A i \in DOMAIN pendingTrig' : pendingTrig'[i] # v)
              => ~FinalSounding(voices'[v])]_vars

\* C27: on a toggle-mode voice the trigger that follows a start and a stop
\* starts playback again, whether or not the player's onstop has been
\* delivered since the stop.
C27_ToggleAlternates ==
    [][\A v \in Voices :
          (/\ voices[v].mode = "toggle"
           /\ lastOp[v] = "T" /\ trigRun[v] = 2
           /\ lastOp'[v] = "T" /\ trigRun'[v] # 2)
              => FinalSounding(voices'[v])]_vars

(***************************************************************************)
(* Claims about the shared capture streams, checked under SpecStream.      *)
(***************************************************************************)

\* C4: a second getSharedInputStream for a device id whose capture is still
\* being negotiated opens no second capture: at no time are two live streams
\* open for one cache key, and two calls that returned for the same key hold
\* the same stream while it is live.
C4_OneLiveStreamPerKey ==
    /\ \A k \in CacheKeys : Cardinality(LiveStreamsOf(k)) <= 1
    /\ \A c1 \in Callers, c2 \in Callers :
           (/\ getCalls[c1].pc = "returned" /\ getCalls[c2].pc = "returned"
            /\ CacheKey(getCalls[c1].deviceId) = CacheKey(getCalls[c2].deviceId)
            /\ streams[getCalls[c1].result].active
            /\ streams[getCalls[c2].result].active)
               => getCalls[c1].result = getCalls[c2].result

(***************************************************************************)
(* Claims about track recording, checked under SpecRec.                    *)
(***************************************************************************)

\* C5 (as stated): for a recording started with a target of T samples, the
\* buffer stop() returns holds exactly min(recorded, T) samples per channel
\* and never more than T.
C5_ExactlyMinRecordedTarget ==
    (lastStop.started /\ lastStop.target # 0 /\ ~lastStop.raised)
        => /\ lastStop.len = Min(lastStop.recorded, lastStop.target)
           /\ lastStop.len <= lastStop.target

\* C5 (amended): for a recording started with a target of T samples, the
\* buffer stop() returns holds exactly min(recorded, T) samples per channel,
\* all of them captured samples and never more than T, when at least one
\* batch was recorded; when none was, it is the 128-sample silent buffer.
C5_TruncatedOrSilent ==
    (lastStop.started /\ lastStop.target # 0 /\ ~lastStop.raised)
        => IF lastStop.recorded = 0
           THEN lastStop.len = DummyLength
           ELSE /\ lastStop.len = Min(lastStop.recorded, lastStop.target)
                /\ lastStop.len <= lastStop.target
                /\ lastStop.filled = lastStop.len

\* C5 witness: a stop after the auto-stop, the batches recorded overshooting
\* the target, the returned buffer cut to the target.
C5_Witness ==
    /\ lastStop.started
    /\ lastStop.target # 0
    /\ lastStop.recorded > lastStop.target
    /\ lastStop.len = lastStop.target
    /\ ~recorder.isRecording

\* C6: every call of stopRecording, whatever the state (before any recording,
\* after another stop, while startRecording is still initializing), returns
\* without raising, returns a non-empty fully defined buffer, and leaves the
\* recorder not recording at its return.
C6_StopRecordingSafe ==
    [][stops' # stops =>
          /\ ~lastStop'.raised
          /\ lastStop'.len > 0
          /\ lastStop'.filled = lastStop'.len
          /\ ~recorder'.isRecording]_vars

\* C6 witness: a second stopRecording, made during the 100 ms wait of a
\* startRecording that has already replaced the recorder.
C6_Witness ==
    /\ stops >= 2
    /\ lastStop.pcAt = "delay"
    /\ ~lastStop.raised
    /\ lastStop.len = DummyLength

\* C19: stop() on a recorder that holds no samples, whether it was never
\* started or no batch reached it, returns the silent buffer of 128
\* samples and does not raise.
C19_SilentBufferForNoSamples ==
    (lastStop # NoStop /\ lastStop.recorded = 0)
        => /\ ~lastStop.raised
           /\ lastStop.len = DummyLength
           /\ lastStop.len > 0

\* stop() was called on a recorder that had been started and had received
\* no batch.
C19_Witness ==
    /\ lastStop # NoStop
    /\ lastStop.started
    /\ lastStop.recorded = 0
    /\ lastStop.len = DummyLength

\* C22: a recorder with a target accepts batches only while its sample count
\* is below the target; the batch that takes the count to the target or past
\* it ends the recording and calls the completion callback (when one is
\* installed), so the callback runs at most once per recording session and
\* never without a target; a recorder without a target keeps recording
\* through every batch it accepts.
C22_AutoStopAtTarget ==
    /\ [](recorder.isRecording /\ recorder.targetSampleCount # 0
            => recorder.recordingLength < recorder.targetSampleCount)
    /\ [](completeCalls <= starts)
    /\ [][LET accepted == recorder'.recordingLength > recorder.recordingLength
              reached == /\ recorder'.targetSampleCount # 0
                         /\ recorder'.recordingLength
                                >= recorder'.targetSampleCount
          IN /\ accepted => recorder.isRecording
             /\ accepted /\ reached
                  => /\ ~recorder'.isRecording
                     /\ completeCalls' = completeCalls
                                         + (IF recorder.onComplete THEN 1 ELSE 0)
             /\ accepted /\ ~reached
                  => recorder'.isRecording /\ completeCalls' = completeCalls
             /\ completeCalls' # completeCalls
                  => /\ accepted /\ reached
                     /\ recorder.recordingLength < recorder.targetSampleCount
       ]_vars

\* A recording with a target of 2400 samples stopped itself at the second
\* batch, called the callback once and dropped the third batch.
C22_Witness ==
    /\ completeCalls = 1
    /\ recorder.targetSampleCount = 2400
    /\ recorder.recordingLength = 2 * BufferSize
    /\ ~recorder.isRecording
    /\ posted = 3
    /\ inflight = 0
    /\ stops = 0

\* C28: after a stopRecording called while the one startRecording made so
\* far was waiting for the input to reconnect or for the 100 ms delay, the
\* recorder is not recording.
C28_StopCancelsStart ==
    (/\ starts = 1
     /\ lastStop.pcAt \in {"connectInput", "delay"})
        => ~recorder.isRecording

(***************************************************************************)
(* Claims about LFO routing, checked under SpecLfo.                        *)
(***************************************************************************)

\* C7: after any sequence of connectLFO, disconnectLFO, updateLfoRange and
\* setLfoReversal calls every parameter is driven by at most one LFO binding
\* and the routing graph holds the connections of the recorded bindings and
\* nothing else; a parameter bound to LFO 1 and then to LFO 2 has exactly one
\* binding, driven by LFO 2, and no routing node of the earlier binding is
\* still connected.
C7_OneBindingPerParam ==
    /\ \A p \in ParamNames :
          LET into == {e \in lfoEdges : e[2] = GetAudioParamByName(p)}
              conn == lfoConnections[p]
          IN /\ Cardinality(into) <= 1
             /\ (conn # NoConn /\ prevSource[p] = 1 /\ conn.source = 2)
                   => /\ Cardinality(into) = 1
                      /\ {e \in lfoEdges : e[2] = conn.scale} = {<<2, conn.scale>>}
    /\ lfoEdges = UNION {ChainOf(lfoConnections[p]) :
                            p \in {q \in ParamNames : lfoConnections[q] # NoConn}}

\* C7 witness: a parameter whose binding to LFO 1 was replaced by a reversed
\* binding to LFO 2 while another parameter is bound as well.
C7_Witness ==
    \E p, q \in ParamNames :
        /\ p # q
        /\ prevSource[p] = 1
        /\ lfoConnections[p].source = 2
        /\ lfoConnections[p].negate # 0
        /\ lfoConnections[q].source = 1

\* C39: after any sequence of connectLFO, setEffect, swapEffects and
\* transferAuditionToSlot calls every binding recorded under a parameter
\* name drives the control the name resolves to now: a binding keyed
\* slot0.wet modulates the effect that occupies slot 0.
C39_BindingFollowsSlot ==
    \A p \in ParamNames :
        lfoConnections[p] # NoConn
            => lfoConnections[p].param = GetAudioParamByName(p)

\* C20: a connectLFO call whose parameter name does not resolve to a
\* control leaves the bindings and the routing as they were, a binding
\* registered under that name included.  Checked under SpecSlotLfo.
C20_UnresolvedConnectIsNoOp ==
    [][\A p \in ParamNames, i \in {1, 2} :
          (GetAudioParamByName(p) = 0 /\ ConnectLFO(p, <<0, 1>>, i))
              => /\ lfoConnections' = lfoConnections
                 /\ lfoEdges' = lfoEdges]_vars

\* C33: a reversed binding delivers values within [min, max] for every LFO
\* output x in [-1, 1], max at x = -1 and min at x = +1.
C33_ReversedStaysInRange ==
    \A p \in ParamNames :
        LET conn == lfoConnections[p]
        IN  conn.negate # 0
              => /\ \A x \in {-1, 0, 1} :
                        /\ Delivered(conn, x) >= conn.min
                        /\ Delivered(conn, x) <= conn.max
                 /\ Delivered(conn, -1) = conn.max
                 /\ Delivered(conn, 1) = conn.min

(***************************************************************************)
(* Claims about the loop transport, checked under SpecLoop.                *)
(***************************************************************************)

\* C8: while the track plays with a loop region of positive length and a
\* play-start offset within [0, duration], getCurrentPosition lies in
\* [loopStart, loopEnd), whatever the rate, the elapsed time and the
\* direction.
C8_PositionInsideLoop ==
    (playerState = "started" /\ LoopLen > 0
         /\ playStartOffset >= 0 /\ playStartOffset <= duration)
        => /\ GetCurrentPosition >= LoopStartOr0
           /\ GetCurrentPosition < LoopEndOrDuration

\* C9: for the same loop region, rate, elapsed time and play-start offset o,
\* the position computed in reverse mirrors the forward one:
\* (forward - o) + (reversed - o) is a multiple of the loop length.
C9_ReverseMirrorsForward ==
    (playerState = "started" /\ LoopLen > 0
         /\ playStartOffset >= 0 /\ playStartOffset <= duration)
        => ((LoopedPosition(FALSE) - playStartOffset)
              + (LoopedPosition(TRUE) - playStartOffset)) % LoopLen = 0

(***************************************************************************)
(* Claims about the effect chain, checked under SpecFx.                    *)
(***************************************************************************)

\* C10: after every rebuild of the effect chain the connections among
\* chainInput, the slots, the audition effect and chainOutput are exactly
\* the single path chainInput -> non-null slots in array order -> audition
\* effect if present -> chainOutput, with no connection left from an earlier
\* ordering.
C10_ChainIsSinglePath ==
    chainEdges = ChainPath(effects, auditioningEffect)

(***************************************************************************)
(* Claims about pad assignment, checked under SpecPads.                    *)
(***************************************************************************)

\* C11: right after assignSample on a pad p in 17..20 the voice's player is
\* connected through to the chainInput of track p - 17, and not to the
\* sampler output, if that track was initialized at the call; otherwise it
\* is connected through to the sampler output.
C11_RowFiveRoutedToTrack ==
    (padv.last.pad = padv.id /\ padv.id \in 17..20)
        => LET through == padv.playerTo \in {"outputBus", "chain"}
           IN IF padv.last.ready
              THEN through /\ padv.busTo = <<"track", padv.id - 17>>
              ELSE through /\ padv.busTo = SamplerOutput

\* C18: every assignSample(padId, ...) with padId in 1..20 is accepted and
\* leaves the pad's voice in the default mode of its position (one-shot for
\* pads 1-4, gate for pads 5-8 and 13-20, toggle for pads 9-12); with any
\* other padId it is rejected and the voice followed is left as it was.
C18_DefaultModePerRow ==
    [][(padv'.last # padv.last /\ padv'.last # NoAssign)
          => LET padId == padv'.last.pad
             IN IF padId \in 1..20
                THEN /\ ~padv'.last.rejected
                     /\ padId = padv.id
                           => padv'.mode =
                                 CASE padId \in 1..4 -> "oneshot"
                                   [] padId \in 5..8 \cup 13..20 -> "gate"
                                   [] padId \in 9..12 -> "toggle"
                ELSE /\ padv'.last.rejected
                     /\ [padv' EXCEPT !.last = padv.last] = padv]_vars

\* C18 witness: a pad of the fourth row whose mode had been set to toggle,
\* back in gate mode after assignSample.
C18_Witness ==
    /\ padv.id \in 13..16
    /\ padv.last.pad = padv.id
    /\ padv.mode = "gate"
    /\ padv.nodes

\* C34: setMicProfile or setSynthProfile with an unknown profile name is a
\* no-op: the filter, bit-crusher, chorus and saturation settings, and
\* whether the character chain has been built, are as before the call.
C34_UnknownProfileNoOp ==
    [][(\E profile \in UnknownProfiles :
            SetMicProfile(profile) \/ SetSynthProfile(profile))
          => /\ padv'.chain = padv.chain
             /\ padv'.nodes = padv.nodes]_vars

\* C35: every character setter (setGrit, setMicProfile, setSynthProfile,
\* setTranswave) can be the first use of a voice: on a voice whose chain is
\* not built it builds the chain once and does not raise, and no later
\* setter call builds the chain again.
C35_SettersBuildChainOnce ==
    [][CharacterSetter
          => /\ ~padv'.set.raised
             /\ padv'.nodes
             /\ padv'.builds = IF padv.nodes THEN padv.builds ELSE 1]_vars

\* C36: when the load started by assignSample(padId, url, name) fails, the
\* voice has the assigned url, name, trigger mode and output routing it had
\* before the call.
C36_FailedLoadKeepsVoice ==
    [][(LoadSettles(FALSE) /\ padv.last.pad = padv.id)
          => /\ padv'.assignedUrl = padv.last.before.assignedUrl
             /\ padv'.name = padv.last.before.name
             /\ padv'.mode = padv.last.before.mode
             /\ padv'.playerTo = padv.last.before.playerTo
             /\ padv'.busTo = padv.last.before.busTo]_vars

(***************************************************************************)
(* Claims about the cast session, checked under SpecCast.                  *)
(***************************************************************************)

\* C12: once stopCasting has been called for a session, no offer is sent
\* for it any more and no peer connection is left open, whatever
\* startCasting was doing when it was called.
C12_StopCastingFinal ==
    cast.offersAtStop # -1
        => /\ cast.offers = cast.offersAtStop
           /\ \A i \in DOMAIN cast.pcs : cast.pcs[i] = "closed"

\* C32: the follow-up set by an applied answer raises no error, also when
\* stopCasting was called before it ran, and acts only on a live session.
C32_DeferredActionsSafe ==
    cast.deferred.ran
        => /\ ~cast.deferred.raised
           /\ ~cast.deferred.live => ~cast.statsInterval

\* C38: every peer connection the manager created, other than the current
\* one, is closed.
C38_OneOpenPeerConnection ==
    \A i \in DOMAIN cast.pcs :
        i # cast.peerConnection => cast.pcs[i] = "closed"

\* C21 as stated: once createOffer has given the local offer, the offer is
\* eventually sent.  Checked under SpecCastLive.
C21_OfferCreatedLeadsToSent ==
    (cast.pc = "setLocalDescription") ~> (cast.sent = 1)

\* C21, amended: an offer is sent only by the polling loop of the call in
\* flight, once, and only when the status query reported a client or the
\* tenth one-second poll has passed; once the local description is set the
\* offer is eventually sent.  Checked under SpecCastLive.
C21_OfferSentOnceAfterWait ==
    /\ [][cast'.offers # cast.offers
            => /\ cast.pc = "polling" /\ cast'.pc = "done"
               /\ cast.sent = 0 /\ cast'.sent = 1
               /\ cast'.offers = cast.offers + 1
               /\ \/ cast'.lastCount > 0
                  \/ cast'.waited = 10 * PollInterval]_vars
    /\ [](cast.sent <= 1)
    /\ (cast.pc = "polling") ~> (cast.pc = "done" /\ cast.sent = 1)

\* The offer was sent after ten polls that reported no client.
C21_Witness ==
    /\ cast.pc = "done"
    /\ cast.sent = 1
    /\ cast.lastCount = 0
    /\ cast.waited = MaxWait

(***************************************************************************)
(* Claims about the batched PCM path, checked under SpecPcm.               *)
(***************************************************************************)

\* C13: a sample in [-1, 1] packed as 24-bit signed little-endian and read
\* back, normalised by 2^23 - 1 or by 2^23, differs from the captured
\* sample by less than 2^-23.
C13_RoundTripWithinStep ==
    LET Abs(x) == IF x < 0 THEN -x ELSE x
        Within(v, k, scale) ==
            LET diff == Abs(v * SampleDen - k * scale)
            IN  diff < SampleDen + 1 /\ diff * 8388608 < scale * SampleDen
        decodedL == Unpack24(SubSeq(pcm.pcm24Buffer, 1, 3))
        decodedR == Unpack24(SubSeq(pcm.pcm24Buffer, 4, 6))
    IN  (/\ pcm.packedAs = "pcm24"
         /\ Abs(pcm.left) <= SampleDen
         /\ Abs(pcm.right) <= SampleDen)
            => \E scale \in {8388607, 8388608} :
                  /\ Within(decodedL, pcm.left, scale)
                  /\ Within(decodedR, pcm.right, scale)

(***************************************************************************)
(* Claims about startAudioPiping, checked under SpecPipe.                  *)
(***************************************************************************)

\* C24: a startAudioPiping call made while the batched path is active and
\* without forceRestart changes nothing of the path: no setup is begun, no
\* worklet node is built or dropped, the cast mode and the active flag stay.
C24_ActivePipeNotRebuilt ==
    [][pcm'.pipeCalls = pcm.pipeCalls + 1
         /\ pcm.audioPipeActive /\ ~pcm'.lastCall.forceRestart
           => /\ pcm'.lastCall.skipped
              /\ pcm'.audioPipeActive
              /\ pcm'.setups = pcm.setups
              /\ pcm'.nodes = pcm.nodes
              /\ pcm'.castMode = pcm.castMode
              /\ pcm'.lastSetup = pcm.lastSetup]_vars

\* With the 'webrtc' path built and active, startAudioPiping('hls') has
\* returned at its guard.
C24_Witness ==
    /\ pcm.audioPipeActive
    /\ pcm.nodes = <<"connected">>
    /\ pcm.setups = 0
    /\ pcm.castMode = "webrtc"
    /\ pcm.lastCall = [mode |-> "hls", forceRestart |-> FALSE, skipped |-> TRUE]

\* C25: once a startAudioPiping call has ended in a failed worklet setup
\* (module load, node creation or source connection) and no other call is
\* in flight, audioPipeActive is false.
C25_FailedSetupReturnsToIdle ==
    pcm.lastSetup \in {"moduleFails", "nodeFails", "connectFails"}
        /\ pcm.setups = 0
      => ~pcm.audioPipeActive

\* C31: once stopAudioPiping has been called and until startAudioPiping is
\* called again, no capture processor is fed and no frame of the master mix
\* is pushed to the bridge.
C31_StopTearsDown ==
    /\ pcm.stopped => ConnectedNodes(pcm.nodes) = 0
    /\ pcm.lastFrame.captured /\ pcm.lastFrame.stopped
         => pcm.lastFrame.pushes = 0

\* C37: whatever startAudioPiping and stopAudioPiping calls were made, at
\* most one capture processor is fed and every frame of the master mix is
\* pushed to the bridge at most once.
C37_OneProcessorFeedsBridge ==
    /\ ConnectedNodes(pcm.nodes) <= 1
    /\ pcm.lastFrame.pushes <= 1

(***************************************************************************)
(* Claims about overlapping connectInput calls, checked under SpecConnect. *)
(***************************************************************************)

\* C40: at most one live input source feeds the track input at any time:
\* when two connectInput calls overlap, one source and one boost gain are
\* connected to trackInput, the ones the fields inputConnection and
\* inputBoostGain name.
C40_OneInputSource ==
    /\ Cardinality(Feeding(cap.wire)) <= 1
    /\ Feeding(cap.wire) \subseteq {cap.wire.inputConnection}
    /\ cap.wire.boostOut \subseteq {cap.wire.inputBoostGain}

(***************************************************************************)
(* Claims about the capture consumers, checked under SpecInput.            *)
(***************************************************************************)

\* C14: a stream held in the shared cache and still used by a consumer is
\* active unless the hardware ended it.
C14_SharedStreamStaysActive ==
    \A i \in DOMAIN cap.streams :
        (/\ cap.inputStreams = i
         /\ \/ cap.track.inputStream = i
            \/ \E ch \in {"mic", "bh"} : cap.router[ch].stream = i)
            => cap.streams[i].active \/ cap.streams[i].endedBy = "hardware"

\* C15 as stated: connectInput raises only after three attempts that gave
\* no stream, and when any attempt gave a stream the call completes with
\* the track connected to it.
C15_AnyStreamConnects ==
    LET last == cap.track.last
    IN  last # <<>>
            => /\ cap.track.raised
                    => /\ Len(last) = 3
                       /\ \A a \in 1..3 : last[a].stream = 0
               /\ (\E a \in DOMAIN last : last[a].stream # 0)
                    => /\ ~cap.track.raised
                       /\ cap.track.inputStream # 0
                       /\ \E a \in DOMAIN last :
                             last[a].stream = cap.track.inputStream

\* C15, amended: the attempts are made in the order shared, relaxed,
\* minimal; the first one counts as failed also when the stream it gave is
\* not active; connectInput raises exactly when three attempts failed, and
\* otherwise completes with the track connected to the stream of the first
\* attempt that did not fail.
C15_FallbackThroughThreeTiers ==
    LET last == cap.track.last
        n == Len(last)
    IN  last # <<>>
            => /\ n \in 1..3
               /\ \A a \in 1..n :
                     last[a].tier = <<"shared", "relaxed", "minimal">>[a]
               /\ \A a \in 1..(n - 1) : ~last[a].usable
               /\ cap.track.raised <=> (n = 3 /\ ~last[3].usable)
               /\ ~cap.track.raised
                    => /\ last[n].usable
                       /\ last[n].stream # 0
                       /\ cap.track.inputStream = last[n].stream

\* A connectInput call whose shared stream was not active and whose two
\* fallbacks failed has raised.
C15_Witness ==
    /\ cap.track.raised
    /\ Len(cap.track.last) = 3
    /\ cap.track.last[1].stream # 0

(***************************************************************************)
(* Claims about the devices, checked under SpecDevices.                    *)
(***************************************************************************)

\* C16: enumerate() never raises; when the platform call fails it returns
\* the empty list, otherwise one entry per audio-input device, in order.
C16_EnumerateNeverRaises ==
    LET last == dev.last
        inputs == {i \in DOMAIN last.raw : last.raw[i].kind = "audioinput"}
    IN  last.call = "enumerate"
            => /\ ~last.raised
               /\ last.failed => last.result = <<>>
               /\ ~last.failed
                    => /\ Len(last.result) = Cardinality(inputs)
                       /\ \A j \in DOMAIN last.result :
                             \E i \in inputs :
                                /\ last.result[j].deviceId = last.raw[i].deviceId
                                /\ Cardinality({x \in inputs : x < i}) = j - 1

\* A failed enumeration after a successful one returned the empty list.
C16_Witness ==
    /\ dev.last.call = "enumerate"
    /\ dev.last.failed
    /\ dev.last.result = <<>>
    /\ dev.devices # <<>>

\* C17: every enumerated device is a microphone or a loopback device and
\* not both; it is a loopback device exactly when its label contains one of
\* the vendor substrings, letter case ignored; "BlackHole 2ch" is one.
C17_ExactlyOneClass ==
    LET vendor == {<<"b", "l", "a", "c", "k", "h", "o", "l", "e">>,
                   <<"b", "l", "a", "c", "k", " ", "h", "o", "l", "e">>,
                   <<"v", "b", "-", "a", "u", "d", "i", "o">>,
                   <<"v", "i", "r", "t", "u", "a", "l", " ", "a", "u", "d", "i", "o", " ", "c", "a", "b", "l", "e">>,
                   <<"v", "a", "c">>,
                   <<"c", "a", "b", "l", "e", " ", "o", "u", "t", "p", "u", "t">>,
                   <<"j", "a", "c", "k">>,
                   <<"p", "i", "p", "e", "w", "i", "r", "e">>,
                   <<"s", "o", "u", "n", "d", "f", "l", "o", "w", "e", "r">>}
        SameLetter(a, b) == ToLowerCase(<<a>>) = ToLowerCase(<<b>>)
        Contains(label, sub) ==
            \E off \in 0..(Len(label) - Len(sub)) :
                \A j \in 1..Len(sub) : SameLetter(label[off + j], sub[j])
    IN  \A i \in DOMAIN dev.devices :
            LET e == dev.devices[i]
                loopback == e.isBlackHole \/ e.isVirtualCable
            IN  /\ e.isMicrophone <=> ~loopback
                /\ loopback <=> \E sub \in vendor : Contains(e.label, sub)
                /\ e.label = <<"B", "l", "a", "c", "k", "H", "o", "l", "e", " ", "2", "c", "h">>
                      => loopback /\ ~e.isMicrophone

\* The device labeled "BlackHole 2ch" has been enumerated as a loopback
\* device.
C17_Witness ==
    \E i \in DOMAIN dev.devices :
        /\ dev.devices[i].label = <<"B", "l", "a", "c", "k", "H", "o", "l", "e", " ", "2", "c", "h">>
        /\ dev.devices[i].isBlackHole
        /\ ~dev.devices[i].isMicrophone

(***************************************************************************)
(* Claims about the master volume, checked under SpecMaster.               *)
(***************************************************************************)

RECURSIVE Concatenated(_, _)
Concatenated(frames, channel) ==
    IF frames = <<>> THEN <<>>
    ELSE LET frame == Head(frames)
             samples == IF channel = "left" THEN frame.left ELSE frame.right
         IN  [j \in 1..Len(samples) |-> samples[j]]
                 \o Concatenated(Tail(frames), channel)

\* C29: the RecorderProcessor drops the first latencySamples input samples
\* and no other: captured sample number k, in the batches posted and in the
\* buffer being filled, is input sample number k + latencySamples.
C29_SkipsExactlyLatency ==
    LET p == worklet.recorder
        left == Concatenated(p.posted, "left")
        right == Concatenated(p.posted, "right")
    IN  /\ p.skippedSamples = Min(p.fed, p.samplesToSkip)
        /\ p.index \in 0..(RecFrame - 1)
        /\ Len(left) + p.index = p.fed - p.skippedSamples
        /\ Len(left) = RecFrame * Len(p.posted)
        /\ Len(right) = Len(left)
        /\ \A k \in 0..(Len(left) - 1) :
               /\ left[k + 1] = LeftSample(k + p.samplesToSkip)
               /\ right[k + 1] \in {LeftSample(k + p.samplesToSkip),
                                    RightSample(k + p.samplesToSkip)}
        /\ \A j \in 1..p.index :
               p.bufferL[j] = LeftSample(Len(left) + j - 1 + p.samplesToSkip)

\* With two samples to skip, ten samples read: two batches posted, two
\* samples waiting in the buffer.
C29_Witness ==
    /\ worklet.recorder.samplesToSkip = 2
    /\ worklet.recorder.skippedSamples = 2
    /\ worklet.recorder.fed = 10
    /\ Len(worklet.recorder.posted) = 2
    /\ worklet.recorder.index = 2

\* C30: every frame the CastProcessor posts holds bufferSize samples per
\* channel, bufferIndex stays below bufferSize, and the frames posted,
\* joined, are the input samples from the first on, in order.
C30_CompleteFramesOnly ==
    LET p == worklet.cast
        left == Concatenated(p.posted, "left")
        right == Concatenated(p.posted, "right")
    IN  /\ p.bufferIndex \in 0..(CastFrame - 1)
        /\ \A f \in DOMAIN p.posted :
               /\ DOMAIN p.posted[f].left = 1..CastFrame
               /\ DOMAIN p.posted[f].right = 1..CastFrame
        /\ Len(left) = CastFrame * (p.fed \div CastFrame)
        /\ p.bufferIndex = p.fed % CastFrame
        /\ \A k \in 0..(Len(left) - 1) :
               /\ left[k + 1] = LeftSample(k)
               /\ right[k + 1] \in {LeftSample(k), RightSample(k)}

\* Ten samples read: two frames posted, two samples waiting.
C30_Witness ==
    /\ worklet.cast.fed = 10
    /\ Len(worklet.cast.posted) = 2
    /\ worklet.cast.bufferIndex = 2

====
